---- MODULE Spec2Model ----
(***************************************************************************)
(* A model of the Surveil backend: the round-robin detection scheduler     *)
(* (detector_pipeline.detection_loop), the pipeline composer               *)
(* (_run_detectors, _deduplicate_person_events), the frame source          *)
(* (camera_manager.CameraCapture), the subscriber registry                 *)
(* (websocket_manager.ConnectionManager) and the fight tracker             *)
(* (detectors/fight.py).                                                   *)
(*                                                                         *)
(* Numbers: boxes live on an integer grid (one grid unit is a fixed        *)
(* fraction of the frame), confidences are in thousandths, and an IoU is   *)
(* kept as the exact pair <<intersection, union>>; a comparison with a     *)
(* threshold is done by cross-multiplication.  Floating-point rounding is  *)
(* not modelled.  Time is the monotonic clock in whole seconds.            *)
(***************************************************************************)
EXTENDS Integers, Sequences, FiniteSets, TLC

(***************************************************************************)
(* Bounds of the model                                                     *)
(***************************************************************************)
\* cameras of the roster (config.CAMERAS has 12; the loop is the same for any)
NumCams == 2
\* websocket connections that may arrive while the scheduler runs
NumWS == 1
\* the longest list the person detector returns
MaxPersonEvents == 2
\* the most poses the pose model finds in one frame
MaxPoses == 2
\* the largest slot id the fight tracker issues
MaxSlot == 2
\* the last second of the monotonic clock
MaxTime == 6
\* the last second of the monotonic clock in front of the Gemini detector
MaxClock == 60
\* the longest event list handed to _deduplicate_person_events taken alone
MaxDedup == 3
\* the cycles in a row that bring the same detections
MaxCycles == 2
\* the largest coordinate of a box handed to the IoU functions taken alone
MaxCoord == 2

(***************************************************************************)
(* Program constants                                                       *)
(***************************************************************************)
\* config.FIGHT_SUSTAIN_FRAMES
FIGHT_SUSTAIN_FRAMES == 3
\* config.FIGHT_EVENT_COOLDOWN_SECS
FIGHT_EVENT_COOLDOWN_SECS == 3
\* config.FIGHT_MIN_CRITERIA
FIGHT_MIN_CRITERIA == 2
\* config.GEMINI_WEAPON_COOLDOWN_SECS, imported by detectors/gemini_weapon.py;
\* 30 s by the comment at the rate limit of GeminiWeaponDetector.detect
GEMINI_WEAPON_COOLDOWN_SECS == 30

Cams == 1..NumCams
WS == 1..NumWS

\* detector_pipeline._detectors, in list order
DetectorOrder == <<"person", "fight", "motion", "weapon">>
Detectors == {"person", "fight", "motion", "weapon"}

VARIABLES
  \* ---- camera_manager.CameraCapture, one per camera of the roster
  online,       \* CameraCapture._online
  hasFrame,     \* CameraCapture._latest_frame is not None
  decoding,     \* the decode thread of the capture is still in its loop
  \* ---- detector_pipeline.detection_loop
  pc,           \* where the coroutine stands: visit, await, broadcast, sleep, dead
  cur,          \* index into cam_ids of the for loop
  events,       \* events of the current invocation not yet handed to broadcast
  emitted,      \* events of the current invocation handed to broadcast, in order
  visits,       \* the last NumCams + 1 cameras visited (history)
  failed,       \* some detector call has raised (history)
  \* ---- the default executor of the event loop
  running,      \* _run_detectors calls submitted and not yet returned
  future,       \* the future run_in_executor gave the loop
  \* ---- detector_pipeline module state
  enabled,      \* detector.enabled of each detector of _detectors
  fightCams,    \* keys of FightDetector._fight_history
  \* ---- websocket_manager.ConnectionManager and main.websocket_events
  connections,  \* ConnectionManager._connections
  wsPc,         \* where the handler of each websocket stands
  bPc,          \* where ConnectionManager.broadcast stands: idle, sending
  bTargets,     \* targets of the running broadcast not yet sent to
  bDead,        \* dead of the running broadcast
  \* ---- one call of detector_pipeline._run_detectors, taken alone
  pEnabled,     \* detector.enabled of each detector of _detectors
  pOuts,        \* what each detect call does on the frame of the call
  pResult,      \* what the call gave its caller
  pPhase,       \* ready, done (off when the call is not taken alone)
  \* ---- detector_pipeline._deduplicate_person_events, taken alone
  dedup_in,     \* the events of the cycle
  dedup_out,    \* what the last call returned
  dedup_calls,  \* the cycles so far, each with one call on equal events
  dedup_first,  \* what the call of the first cycle returned (history)
  \* ---- _compute_iou and _compute_iou_xyxy, taken alone
  iou_box_a,        \* box_a as (x1, y1, x2, y2)
  iou_box_b,        \* box_b
  iou_done,     \* the functions have been called on the boxes
  iou_ab,       \* <<_compute_iou(a, b), _compute_iou_xyxy(a, b)>>
  iou_ba,       \* the same of (b, a)
  iou_aa,       \* the same of (a, a)
  \* ---- detectors/fight.py: FightDetector, each dict keyed by camera
  prev_bboxes,      \* FightDetector._prev_bboxes (and _prev_keypoints, of the same poses)
  prev_slots,       \* FightDetector._prev_slots
  next_slot,        \* FightDetector._next_slot
  fight_history,    \* FightDetector._fight_history: pair key -> buffer of booleans
  last_fight_time,  \* FightDetector._last_fight_time
  now,              \* time.monotonic(), in seconds
  fCall,            \* the detect call of the last step (history)
  streak,           \* per camera and pair key: the latest returned detect calls in a
                    \* row in which the pair was proximity-gated and passed (history)
  streakAll,        \* the same, a detect call that raised breaking the row (history)
  event_time,       \* per camera: when detect last returned a fight event (history)
  issued,           \* per camera: the slot ids _assign_slots has given out (history)
  entities,         \* per camera: who the poses of the previous frame were (history)
  seen,             \* per camera: everybody a frame has shown so far (history)
  before,           \* what the last detect call found when it started (history)
  quiet,            \* per camera: the returned detect calls since the last fight
                    \* event, FIGHT_SUSTAIN_FRAMES standing for that many or more (history)
  solo,             \* per camera: the latest returned detect calls in a row on a
                    \* frame of exactly two poses (history, capped alike)
  age,              \* per camera and pair key: the latest returned detect calls in a
                    \* row in which the pair was co-present and proximity-gated
                    \* (history, capped alike)
  \* ---- detectors/gemini_weapon.py: GeminiWeaponDetector
  gemini_enabled,   \* GeminiWeaponDetector._enabled (and _client is not None)
  last_call,        \* GeminiWeaponDetector._last_call: camera -> monotonic time
  gCall,            \* the detect call of the last step (history)
  call_time,        \* per camera: when generate_content was last called (history)
  calls             \* every generate_content call so far: <<camera, time>> (history)

schedVars == <<online, hasFrame, decoding, pc, cur, events, emitted, visits,
               failed, running, future, enabled, fightCams,
               connections, wsPc, bPc, bTargets, bDead>>

dedupVars == <<dedup_in, dedup_out, dedup_calls, dedup_first>>

iouVars == <<iou_box_a, iou_box_b, iou_done, iou_ab, iou_ba, iou_aa>>

pipeVars == <<pEnabled, pOuts, pResult, pPhase, dedupVars, iouVars>>

fightVars == <<prev_bboxes, prev_slots, next_slot, fight_history, last_fight_time,
               now, fCall, streak, streakAll, event_time, issued, entities, seen,
               before, quiet, solo, age>>

geminiVars == <<gemini_enabled, last_call, gCall, call_time, calls>>

\* the variables the scheduler does not touch
restVars == <<pipeVars, fightVars, geminiVars>>

\* the scheduler's variables the fight detector does not touch
schedRest == <<online, hasFrame, decoding, pc, cur, events, emitted, visits,
               failed, running, future, enabled,
               connections, wsPc, bPc, bTargets, bDead>>

vars == <<schedVars, restVars>>

(***************************************************************************)
(* Events and boxes                                                        *)
(***************************************************************************)
\* a bounding_box dict {x, y, width, height}
Box(x, y, w, h) == [x |-> x, y |-> y, width |-> w, height |-> h]

\* an event dict; det is history: the detector whose detect call returned it
Ev(type, conf, box, source, det) ==
  [event_type |-> type, confidence |-> conf, bounding_box |-> box,
   source |-> source, det |-> det]

IsPerson(e) == e.event_type = "person_detected"

\* e.pop("source", None)
PopSource(e) == [e EXCEPT !.source = "none"]

\* what one detect call did: returned a list or raised
Ret(evs) == [raised |-> FALSE, events |-> evs]
Raise == [raised |-> TRUE, events |-> <<>>]

Range(s) == {s[k] : k \in 1..Len(s)}

\* the lists of at most n different elements of S
ListsOf(S, n) ==
  UNION {{q \in [1..k -> S] : \A i, j \in 1..k : i # j => q[i] # q[j]} : k \in 0..n}

(***************************************************************************)
(* Geometry                                                                *)
(***************************************************************************)
Max(a, b) == IF a >= b THEN a ELSE b
Min(a, b) == IF a <= b THEN a ELSE b

\* _to_xyxy of _deduplicate_person_events
ToXYXY(bb) == <<bb.x, bb.y, bb.x + bb.width, bb.y + bb.height>>

\* _compute_iou: <<inter, union>> when union > 1e-8, else the value 0.0 as <<0, 1>>
ComputeIou(a, b) ==
  LET ix1 == Max(a[1], b[1])
      iy1 == Max(a[2], b[2])
      ix2 == Min(a[3], b[3])
      iy2 == Min(a[4], b[4])
      inter == Max(0, ix2 - ix1) * Max(0, iy2 - iy1)
      union == (a[3] - a[1]) * (a[4] - a[2]) + (b[3] - b[1]) * (b[4] - b[2]) - inter
  IN IF union > 0 THEN <<inter, union>> ELSE <<0, 1>>

\* a threshold of 0.75
OverHigherThreshold(iou) == 4 * iou[1] > 3 * iou[2]

\* a threshold that 0.5 itself passes
AtDedupThreshold(iou) == 2 * iou[1] >= iou[2]

\* iou > _PERSON_DEDUP_IOU_THRESHOLD (0.5)
OverDedupThreshold(iou) == 2 * iou[1] > iou[2]

(***************************************************************************)
(* _deduplicate_person_events                                              *)
(***************************************************************************)
\* a comparison that gives a tie to the later event
KeepsEarlierStrict(ci, cj) == ci > cj

\* line 124: indexed[i][0]["confidence"] >= indexed[j][0]["confidence"]
KeepsEarlier(ci, cj) == ci >= cj

\* the inner loop over j of lines 119-128, from j on; the result is suppressed
RECURSIVE DedupInner(_, _, _, _)
DedupInner(pe, i, j, suppressed) ==
  IF j > Len(pe) THEN suppressed
  ELSE IF j \in suppressed THEN DedupInner(pe, i, j + 1, suppressed)
  ELSE IF OverDedupThreshold(ComputeIou(ToXYXY(pe[i].bounding_box),
                                        ToXYXY(pe[j].bounding_box)))
       THEN IF KeepsEarlier(pe[i].confidence, pe[j].confidence)
            THEN DedupInner(pe, i, j + 1, suppressed \cup {j})
            ELSE suppressed \cup {i}
       ELSE DedupInner(pe, i, j + 1, suppressed)

\* the outer loop over i of lines 116-128, from i on
RECURSIVE DedupOuter(_, _, _)
DedupOuter(pe, i, suppressed) ==
  IF i > Len(pe) THEN suppressed
  ELSE IF i \in suppressed THEN DedupOuter(pe, i + 1, suppressed)
  ELSE DedupOuter(pe, i + 1, DedupInner(pe, i, i + 1, suppressed))

\* the indices of s, in order, that are not in drop
RECURSIVE KeepFrom(_, _, _)
KeepFrom(s, k, drop) ==
  IF k > Len(s) THEN <<>>
  ELSE IF k \in drop THEN KeepFrom(s, k + 1, drop)
  ELSE <<s[k]>> \o KeepFrom(s, k + 1, drop)

MapPopSource(s) == [k \in 1..Len(s) |-> PopSource(s[k])]

DeduplicatePersonEvents(evs) ==
  LET person_events == SelectSeq(evs, IsPerson)
      other_events == SelectSeq(evs, LAMBDA e : ~IsPerson(e))
  IN IF Len(person_events) <= 1
     THEN other_events \o MapPopSource(person_events)
     ELSE LET suppressed == DedupOuter(person_events, 1, {})
              kept == KeepFrom(person_events, 1, suppressed)
          IN other_events \o MapPopSource(kept)

(***************************************************************************)
(* _run_detectors                                                          *)
(***************************************************************************)
\* the loop over _detectors from index i on; outs[d] is what d.detect does when
\* it is called on this frame; invoked is history: the detectors called so far
RECURSIVE RunDetectorsFrom(_, _, _, _, _)
RunDetectorsFrom(i, all_events, invoked, en, outs) ==
  IF i > Len(DetectorOrder) THEN [events |-> all_events, invoked |-> invoked]
  ELSE LET d == DetectorOrder[i] IN
       IF ~en[d] THEN RunDetectorsFrom(i + 1, all_events, invoked, en, outs)
       ELSE IF outs[d].raised
            THEN RunDetectorsFrom(i + 1, all_events, invoked \cup {d}, en, outs)
       ELSE LET ext == all_events \o outs[d].events
                nxt == IF d = "fight" THEN DeduplicatePersonEvents(ext) ELSE ext
            IN RunDetectorsFrom(i + 1, nxt, invoked \cup {d}, en, outs)

\* a _run_detectors whose try/except is missing: the first failure propagates
RunDetectorsNoCatch(en, outs) ==
  LET r == RunDetectorsFrom(1, <<>>, {}, en, outs)
  IN IF \E d \in Detectors : en[d] /\ outs[d].raised
     THEN [raised |-> TRUE, events |-> <<>>, invoked |-> r.invoked]
     ELSE [raised |-> FALSE, events |-> r.events, invoked |-> r.invoked]

\* a _run_detectors that gives up at the first detect call that raises and
\* returns what it has so far
RunDetectorsStopAtRaise(en, outs) ==
  LET bad == {i \in 1..Len(DetectorOrder) :
                en[DetectorOrder[i]] /\ outs[DetectorOrder[i]].raised}
      upto == [d \in Detectors |->
                 en[d] /\ \A i \in bad : \E j \in 1..i : DetectorOrder[j] = d]
      r == RunDetectorsFrom(1, <<>>, {}, upto, outs)
  IN [raised |-> FALSE, events |-> r.events, invoked |-> r.invoked]

\* _run_detectors(frame, cam_id): what the call gives its caller
RunDetectors(en, outs) ==
  LET r == RunDetectorsFrom(1, <<>>, {}, en, outs)
  IN [raised |-> FALSE, events |-> r.events, invoked |-> r.invoked]

(***************************************************************************)
(* detectors/fight.py: the tracker and the sustain buffers of              *)
(* FightDetector.detect                                                    *)
(***************************************************************************)
\* _PersonPose: the box of a pose as (x1, y1, x2, y2) and its confidence.
\* The poses of the model are 3 wide and 4 high, so that the diagonal is 5.
PoseAt(x) == [bbox_xyxy_norm |-> <<x, 0, x + 3, 4>>, confidence |-> 800]

\* where a person stands in a frame: 0 and 1 are close to each other, 6 is far
\* from both; a person who moves from 0 to 1 overlaps the old box with IoU 0.5
Positions == {0, 1, 6}

\* the poses the pose model finds in one frame
Frames == ListsOf({PoseAt(x) : x \in Positions}, MaxPoses)

\* what a camera looks at: people come and go in front of the first camera,
\* the other cameras look at an empty room
FramesOf(c) == IF c = 1 THEN Frames ELSE {<<>>}

\* the keypoints of a frame of n poses, as far as the criteria look at them:
\* the pairs with a wrist inside the other's box,
ArmInputs(n) == SUBSET {p \in (1..n) \X (1..n) : p[1] < p[2]}

\* and the poses (none or one of them) with fast limbs, or with a raised wrist
PoseInputs(n) == {{}} \cup {{i} : i \in 1..n}

\* the poses with a raised wrist: none, or the first one (the criterion asks
\* whether either pose of a pair has one)
PostureInputs(n) == {{}} \cup {{i} : i \in 1..Min(n, 1)}

\* what the keypoints of a frame of n poses can show: <<arm, moved, posture>>.
\* They are looked at only in a frame of two poses or more (line 179).
FightInputs ==
  [n \in 0..(MaxPoses + 1) |->
     IF n < 2 THEN {<<{}, {}, {}>>}
     ELSE ArmInputs(n) \X PoseInputs(n) \X PostureInputs(n)]

\* pair keys: (min slot, max slot)
Keys == {k \in (0..MaxSlot) \X (0..MaxSlot) : k[1] < k[2]}
NoKey == <<-1, -1>>

\* a camera that is not a key of _last_fight_time
NoTime == -1

\* a dict with no key
EmptyDict == [k \in {} |-> <<>>]

\* no detect call in the last step.  A call is recorded with its camera,
\* whether the pose model raised, the fight events it returned (as pair keys),
\* the key of the event (NoKey: none), the keys whose buffer was full when it
\* was pushed into, the indices of the poses that were given a fresh slot, and
\* the bounding_box of each fight event returned
NoCall == [cam |-> 0, raised |-> FALSE, events |-> <<>>, fired |-> NoKey,
           wasFull |-> {}, fresh |-> {}, boxes |-> <<>>]

\* nothing found by a detect call when it started: the pair keys that had a
\* buffer, those of them whose buffer one more pass would fill with passes,
\* the camera's returned detect calls since its last fight event, and the time
\* of that event
NoBefore == [keys |-> {}, ripe |-> {}, quiet |-> 0, last |-> NoTime]

\* an overlap ratio taken over the first box alone
ComputeIouOverFirst(box_a, box_b) ==
  LET inter_x1 == Max(box_a[1], box_b[1])
      inter_y1 == Max(box_a[2], box_b[2])
      inter_x2 == Min(box_a[3], box_b[3])
      inter_y2 == Min(box_a[4], box_b[4])
      inter == Max(0, inter_x2 - inter_x1) * Max(0, inter_y2 - inter_y1)
      area_a == (box_a[3] - box_a[1]) * (box_a[4] - box_a[2])
  IN IF area_a > 0 THEN <<inter, area_a>> ELSE <<0, 1>>

\* _compute_iou_xyxy: <<inter, union>> when union > 1e-8, else 0.0 as <<0, 1>>
ComputeIouXYXY(box_a, box_b) ==
  LET inter_x1 == Max(box_a[1], box_b[1])
      inter_y1 == Max(box_a[2], box_b[2])
      inter_x2 == Min(box_a[3], box_b[3])
      inter_y2 == Min(box_a[4], box_b[4])
      inter == Max(0, inter_x2 - inter_x1) * Max(0, inter_y2 - inter_y1)
      area_a == (box_a[3] - box_a[1]) * (box_a[4] - box_a[2])
      area_b == (box_b[3] - box_b[1]) * (box_b[4] - box_b[2])
      union == area_a + area_b - inter
  IN IF union > 0 THEN <<inter, union>> ELSE <<0, 1>>

\* iou_box_a > iou_box_b, for two IoU values kept as fractions
\* a comparison that an equal IoU passes
IouGreaterOrEqual(iou_a, iou_b) == iou_a[1] * iou_b[2] >= iou_b[1] * iou_a[2]

IouGreater(iou_a, iou_b) == iou_a[1] * iou_b[2] > iou_b[1] * iou_a[2]

\* _assign_slots, lines 286-293: the inner loop over the previous boxes from j
\* on; best is <<best_iou, best_j>>, and best_j = 0 stands for -1
RECURSIVE BestPrev(_, _, _, _, _)
BestPrev(bb, prev_bbs, used_prev, j, best) ==
  IF j > Len(prev_bbs) THEN best
  ELSE IF j \in used_prev THEN BestPrev(bb, prev_bbs, used_prev, j + 1, best)
  ELSE LET iou == ComputeIouXYXY(bb, prev_bbs[j])
       IN IF IouGreater(iou, best[1])
          THEN BestPrev(bb, prev_bbs, used_prev, j + 1, <<iou, j>>)
          ELSE BestPrev(bb, prev_bbs, used_prev, j + 1, best)

\* a matching that does not mark the previous detection consumed
RECURSIVE MatchSlotsNoConsume(_, _, _, _, _, _)
MatchSlotsNoConsume(poses, prev_bbs, prev_sl, i, slots, used_prev) ==
  IF i > Len(poses) THEN slots
  ELSE LET best == BestPrev(poses[i].bbox_xyxy_norm, prev_bbs, used_prev, 1, <<(<<3, 10>>), 0>>)
           best_j == best[2]
       IN IF best_j >= 1
          THEN MatchSlotsNoConsume(poses, prev_bbs, prev_sl, i + 1,
                                   Append(slots, prev_sl[best_j]), used_prev)
          ELSE MatchSlotsNoConsume(poses, prev_bbs, prev_sl, i + 1, Append(slots, -1),
                                   used_prev)

\* _assign_slots, lines 283-297: the loop over the poses from i on; a slot of
\* -1 stands for None
RECURSIVE MatchSlots(_, _, _, _, _, _)
MatchSlots(poses, prev_bbs, prev_sl, i, slots, used_prev) ==
  IF i > Len(poses) THEN slots
  ELSE LET best == BestPrev(poses[i].bbox_xyxy_norm, prev_bbs, used_prev, 1, <<(<<3, 10>>), 0>>)
           best_j == best[2]
       IN IF best_j >= 1
          THEN MatchSlots(poses, prev_bbs, prev_sl, i + 1,
                          Append(slots, prev_sl[best_j]), used_prev \cup {best_j})
          ELSE MatchSlots(poses, prev_bbs, prev_sl, i + 1, Append(slots, -1), used_prev)

\* fresh slots out of a counter that is not advanced
RECURSIVE FillSlotsNoAdvance(_, _, _)
FillSlotsNoAdvance(slots, i, next) ==
  IF i > Len(slots) THEN [slots |-> slots, next |-> next]
  ELSE IF slots[i] = -1
       THEN FillSlotsNoAdvance([slots EXCEPT ![i] = next], i + 1, next)
       ELSE FillSlotsNoAdvance(slots, i + 1, next)

\* _assign_slots, lines 299-303: fresh slots for the unmatched, in index order
RECURSIVE FillSlots(_, _, _)
FillSlots(slots, i, next) ==
  IF i > Len(slots) THEN [slots |-> slots, next |-> next]
  ELSE IF slots[i] = -1
       THEN FillSlots([slots EXCEPT ![i] = next], i + 1, next + 1)
       ELSE FillSlots(slots, i + 1, next)

\* _assign_slots(cam_id, poses): the slots of the poses, the new _next_slot,
\* and the indices of the poses that no previous box was matched to
AssignSlots(prev_bbs, prev_sl, next, poses) ==
  IF prev_bbs = <<>> \/ prev_sl = <<>>
  THEN [slots |-> [i \in 1..Len(poses) |-> next + i - 1], next |-> next + Len(poses),
        fresh |-> 1..Len(poses)]
  ELSE LET matched == MatchSlots(poses, prev_bbs, prev_sl, 1, <<>>, {})
           filled == FillSlots(matched, 1, next)
       IN [slots |-> filled.slots, next |-> filled.next,
           fresh |-> {i \in 1..Len(poses) : matched[i] = -1}]

\* _PersonPose.diagonal: np.hypot of width and height (exact for the model's boxes)
Diagonal(bb) ==
  LET w == bb[3] - bb[1]
      h == bb[4] - bb[2]
      sq == w * w + h * h
  IN CHOOSE d \in Max(w, h)..(w + h) : d * d = sq

\* _check_proximity: dist / avg_diag < FIGHT_PROXIMITY_RATIO (0.8), squared and
\* with the centres doubled: 25 * (2 dist)^2 < 16 * (diag_a + diag_b)^2
CheckProximity(pa, pb) ==
  LET a == pa.bbox_xyxy_norm
      b == pb.bbox_xyxy_norm
      dx == (a[1] + a[3]) - (b[1] + b[3])
      dy == (a[2] + a[4]) - (b[2] + b[4])
      diags == Diagonal(a) + Diagonal(b)
  IN IF diags = 0 THEN FALSE
     ELSE 25 * (dx * dx + dy * dy) < 16 * diags * diags

\* _compute_velocities: the pose has a previous pose to measure against, one
\* whose box overlaps it with the best IoU, that IoU being at least 0.2
HasPrevPose(pose, prev_bbs) ==
  \E j \in 1..Len(prev_bbs) :
    LET iou == ComputeIouXYXY(pose.bbox_xyxy_norm, prev_bbs[j])
    IN iou[1] > 0 /\ 5 * iou[1] >= iou[2]

\* _compute_velocities, lines 350-357: the loop over the previous boxes from j
\* on; best is <<best_iou, index of best_prev_kp>>, the index 0 standing for None
RECURSIVE BestPrevKp(_, _, _, _)
BestPrevKp(bb, prev_bbs, j, best) ==
  IF j > Len(prev_bbs) THEN best
  ELSE LET iou == ComputeIouXYXY(bb, prev_bbs[j])
       IN IF IouGreater(iou, best[1])
          THEN BestPrevKp(bb, prev_bbs, j + 1, <<iou, j>>)
          ELSE BestPrevKp(bb, prev_bbs, j + 1, best)

\* _compute_velocities, lines 343-361: the index of the previous pose whose
\* keypoints the displacement of the pose's limbs is measured against; 0 when
\* there is none (best_prev_kp is None or best_iou < 0.2) and the velocity is 0.0
VelocityPrev(bb, prev_bbs) ==
  LET best == BestPrevKp(bb, prev_bbs, 1, <<(<<0, 1>>), 0>>)
  IN IF best[2] = 0 \/ 5 * best[1][1] < best[1][2] THEN 0 ELSE best[2]

\* lines 190-207: the criteria the pair of poses a < b meets.  The keypoints
\* are inputs: arm holds the pairs with a wrist inside the other's box, moved
\* the poses whose limbs are displaced by more than the velocity threshold
\* from the previous pose, posture the poses with a wrist above the shoulder.
CriteriaMet(a, b, poses, prev_bbs, arm, moved, posture) ==
  LET fast(i) == i \in moved /\ HasPrevPose(poses[i], prev_bbs)
  IN (IF <<a, b>> \in arm THEN 1 ELSE 0)
     + (IF fast(a) \/ fast(b) THEN 1 ELSE 0)
     + (IF a \in posture \/ b \in posture THEN 1 ELSE 0)

\* lines 210-211
PairKey(slots, a, b) == <<Min(slots[a], slots[b]), Max(slots[a], slots[b])>>

\* a list of pairs, from the largest down
RECURSIVE ListPairsDown(_, _)
ListPairsDown(S, n) ==
  IF S = {} THEN <<>>
  ELSE LET p == CHOOSE p \in S : \A q \in S : p[1] * n + p[2] >= q[1] * n + q[2]
       IN <<p>> \o ListPairsDown(S \ {p}, n)

\* itertools.combinations(range(n), 2), as a list
RECURSIVE ListPairs(_, _)
ListPairs(S, n) ==
  IF S = {} THEN <<>>
  ELSE LET p == CHOOSE p \in S : \A q \in S : p[1] * n + p[2] <= q[1] * n + q[2]
       IN <<p>> \o ListPairs(S \ {p}, n)

\* the lists of pairs of the frames of up to MaxPoses + 1 poses
CombinationsOf ==
  [n \in 0..(MaxPoses + 1) |-> ListPairs({p \in (1..n) \X (1..n) : p[1] < p[2]}, n)]

Combinations(n) == CombinationsOf[n]

\* a full buffer of passes
AllPassed == [i \in 1..FIGHT_SUSTAIN_FRAMES |-> TRUE]

\* a buffer that grows without bound
PushUnbounded(buf, v) == Append(buf, v)

\* a buffer that starts again once it is full of passes
PushRestarting(buf, v) ==
  IF buf = AllPassed THEN <<v>>
  ELSE IF Len(buf) = FIGHT_SUSTAIN_FRAMES THEN Append(Tail(buf), v) ELSE Append(buf, v)

\* deque(maxlen=FIGHT_SUSTAIN_FRAMES).append
Push(buf, v) ==
  IF Len(buf) = FIGHT_SUSTAIN_FRAMES THEN Append(Tail(buf), v) ELSE Append(buf, v)

\* a test that fires on any buffer of passes, full or not
ShouldFireAnyLength(buf) == \A i \in 1..Len(buf) : buf[i]

\* line 219: len(buf) == FIGHT_SUSTAIN_FRAMES and all(buf)
ShouldFire(buf) == Len(buf) = FIGHT_SUSTAIN_FRAMES /\ \A i \in 1..Len(buf) : buf[i]

\* a cooldown that counts from the start of the clock, whatever was emitted
CooldownSinceStart(now_mono, last) == now_mono >= FIGHT_EVENT_COOLDOWN_SECS

\* line 221: now_mono - self._last_fight_time.get(cam_id, 0) >= FIGHT_EVENT_COOLDOWN_SECS
CooldownElapsed(now_mono, last) ==
  now_mono - (IF last = NoTime THEN 0 ELSE last) >= FIGHT_EVENT_COOLDOWN_SECS

\* lines 182-248: the loop over the pairs from index i on; st holds history (the
\* camera's dict of buffers), active_pairs, the camera's last fight time,
\* fight_events (each event as its pair key), the key the loop broke on
\* (NoKey: it has not), and the keys whose buffer was full when it was pushed
\* into
LoopStart(history, last) ==
  [history |-> history, active_pairs |-> {}, last |-> last, fight_events |-> <<>>,
   fired |-> NoKey, wasFull |-> {}, fight_boxes |-> <<>>]

\* lines 227-242: the bounding_box of the fight event of two poses
MergedBox(pa, pb) ==
  LET merged_x1 == Min(pa.bbox_xyxy_norm[1], pb.bbox_xyxy_norm[1])
      merged_y1 == Min(pa.bbox_xyxy_norm[2], pb.bbox_xyxy_norm[2])
      merged_x2 == Max(pa.bbox_xyxy_norm[3], pb.bbox_xyxy_norm[3])
      merged_y2 == Max(pa.bbox_xyxy_norm[4], pb.bbox_xyxy_norm[4])
  IN Box(merged_x1, merged_y1, merged_x2 - merged_x1, merged_y2 - merged_y1)

RECURSIVE PairLoop(_, _, _, _, _, _, _, _, _, _)
PairLoop(pairs, i, st, poses, slots, prev_bbs, arm, moved, posture, now_mono) ==
  IF i > Len(pairs) \/ st.fired # NoKey THEN st
  ELSE LET a == pairs[i][1]
           b == pairs[i][2]
       IN IF ~CheckProximity(poses[a], poses[b])
          THEN PairLoop(pairs, i + 1, st, poses, slots, prev_bbs, arm, moved, posture, now_mono)
          ELSE LET passed == CriteriaMet(a, b, poses, prev_bbs, arm, moved, posture)
                               >= FIGHT_MIN_CRITERIA
                   pair_key == PairKey(slots, a, b)
                   old == IF pair_key \in DOMAIN st.history THEN st.history[pair_key] ELSE <<>>
                   buf == Push(old, passed)
                   fire == ShouldFire(buf) /\ CooldownElapsed(now_mono, st.last)
                   st2 == [history |-> [k \in DOMAIN st.history \cup {pair_key} |->
                                          IF k = pair_key THEN buf ELSE st.history[k]],
                           active_pairs |-> st.active_pairs \cup {pair_key},
                           last |-> IF fire THEN now_mono ELSE st.last,
                           fight_events |-> IF fire THEN Append(st.fight_events, pair_key)
                                            ELSE st.fight_events,
                           fired |-> IF fire THEN pair_key ELSE NoKey,
                           wasFull |-> st.wasFull \cup
                                       (IF Len(old) = FIGHT_SUSTAIN_FRAMES
                                        THEN {pair_key} ELSE {}),
                           fight_boxes |-> IF fire
                                           THEN Append(st.fight_boxes,
                                                       MergedBox(poses[a], poses[b]))
                                           ELSE st.fight_boxes]
               IN PairLoop(pairs, i + 1, st2, poses, slots, prev_bbs, arm, moved, posture,
                           now_mono)

\* a cooldown clock shared by the cameras
StoreLastFightAll(last, c, t) == [b \in DOMAIN last |-> t]

\* line 223, self._last_fight_time[cam_id] = now_mono, with the value the
\* camera's entry has when the loop over the pairs ends
StoreLastFight(last, c, t) == [last EXCEPT ![c] = t]

\* a dict that keeps every buffer
KeepStale(history, active_pairs) == history

\* lines 250-253: the pair keys that are not active are deleted
DropStale(history, active_pairs) ==
  [k \in DOMAIN history \cap active_pairs |-> history[k]]

\* the pair keys that are proximity-gated and pass in a frame, whatever the
\* loop over the pairs does with them
GatedAndPassed(poses, slots, prev_bbs, arm, moved, posture) ==
  { PairKey(slots, p[1], p[2]) :
      p \in { q \in Range(Combinations(Len(poses))) :
                /\ CheckProximity(poses[q[1]], poses[q[2]])
                /\ CriteriaMet(q[1], q[2], poses, prev_bbs, arm, moved, posture)
                     >= FIGHT_MIN_CRITERIA } }

(***************************************************************************)
(* detectors/gemini_weapon.py: the admission gate of                       *)
(* GeminiWeaponDetector.detect                                             *)
(***************************************************************************)
\* no detect call in the last step.  A call is recorded with its camera,
\* whether person_events was non-empty, whether generate_content was called,
\* the number of events returned, how the call ended, whether _run_detectors
\* made it and whether that run had person events when it made it
NoGeminiCall == [cam |-> 0, persons |-> FALSE, called |-> FALSE, returned |-> 0,
                 outcome |-> "none", piped |-> FALSE, found |-> FALSE]

\* what happens once a call is admitted: the request fails before it is sent
\* (the import or the image part raises), generate_content raises or returns
\* text that does not parse, returns no weapon, returns one weapon
GeminiOutcomes == {"unsent", "error", "nothing", "weapon"}

\* a gate that lets every frame through
PersonGateOpen(persons) == FALSE

\* line 115: not person_events
NoPersons(persons) == ~persons

\* a cooldown that is never active
GeminiCoolingDownNever(now_mono, last) == FALSE

\* line 121: now - self._last_call.get(cam_id, 0) < GEMINI_WEAPON_COOLDOWN_SECS
GeminiCoolingDown(now_mono, last) ==
  now_mono - (IF last = NoTime THEN 0 ELSE last) < GEMINI_WEAPON_COOLDOWN_SECS

\* a clock shared by the cameras
StampAll(last, c, t) == [b \in DOMAIN last |-> t]

\* a clock that is never set
StampNothing(last, c, t) == last

\* line 123: self._last_call[cam_id] = now
Stamp(last, c, t) == [last EXCEPT ![c] = t]

\* detector_pipeline.py line 154, detector.detect(frame, cam_id): the
\* person_events a detector gets from a run that found person events or not
PassedPersonEvents(found) == FALSE

\* lines 109-123: the call gets as far as preparing the request
GeminiAdmits(is_enabled, persons, now_mono, last) ==
  /\ is_enabled
  /\ ~NoPersons(persons)
  /\ ~GeminiCoolingDown(now_mono, last)

(***************************************************************************)
(* The scheduler: detection_loop with its collaborators                    *)
(***************************************************************************)
\* what the detectors can do on one frame in the scheduler's specification
BoxA == Box(0, 0, 4, 2)
BoxA2 == Box(1, 0, 4, 2)
BoxFar == Box(6, 0, 4, 2)
SchedP == Ev("person_detected", 900, BoxA, "none", "person")
SchedPf == Ev("person_detected", 600, BoxA2, "fight_detector", "fight")
SchedF == Ev("fight_detected", 700, Box(0, 0, 5, 2), "none", "fight")
SchedM == Ev("motion", 300, BoxFar, "none", "motion")
SchedW == Ev("weapon_detected", 800, BoxA, "none", "weapon")

SchedOuts ==
  { [d \in Detectors |->
       CASE d = "person" -> p [] d = "fight" -> f [] d = "motion" -> m [] OTHER -> w] :
    p \in {Raise, Ret(<<SchedP>>)},
    f \in {Raise, Ret(<<>>), Ret(<<SchedPf, SchedF>>)},
    m \in {Raise, Ret(<<SchedM>>)},
    w \in {Ret(<<>>), Ret(<<SchedW>>)} }

\* config.py: every ENABLE_ toggle is on (and the weights are in place)
ConfigEnabled == [d \in Detectors |-> TRUE]

NoFuture == [done |-> FALSE, raised |-> FALSE, result |-> <<>>]

\* a call handed to loop.run_in_executor runs on a thread of the pool; wsAt is
\* history: where the websocket handlers stood when the call was submitted
TaskInline(c) == [cam |-> c, thread |-> "loop", wsAt |-> wsPc]

Task(c) == [cam |-> c, thread |-> "pool", wsAt |-> wsPc]

\* the event loop's thread is not inside a blocking call
MainFree == \A k \in 1..Len(running) : running[k].thread = "pool"

\* the last n elements of s
LastN(s, n) == IF Len(s) <= n THEN s ELSE SubSeq(s, Len(s) - n + 1, Len(s))

\* a for loop whose continue also steps over the next camera
NextCamSkipping(i) == IF i + 2 > NumCams THEN 1 ELSE i + 2

\* while True: for cam_id in cam_ids
NextCam(i) == IF i = NumCams THEN 1 ELSE i + 1

\* camera_manager.get_capture(cam_id) is None: init_cameras has made a capture
\* for every camera of the roster before the loop starts
NoCapture(c) == c \notin Cams

\* a test that forgets the camera whose first frame is not decoded yet
SkipsOnlyOffline(c) == NoCapture(c) \/ ~online[c]

\* lines 73-82: the visit is skipped

Skips(c) == NoCapture(c) \/ ~online[c] \/ ~hasFrame[c]

\* no call of _run_detectors is taken alone
NoResult == [raised |-> FALSE, events |-> <<>>, invoked |-> {}]

\* the value 0.0 of the IoU functions
IouZero == <<0, 1>>

\* the IoU functions are not taken alone
IouParked ==
  /\ iou_box_a = <<0, 0, 0, 0>>
  /\ iou_box_b = <<0, 0, 0, 0>>
  /\ iou_done = FALSE
  /\ iou_ab = <<IouZero, IouZero>>
  /\ iou_ba = <<IouZero, IouZero>>
  /\ iou_aa = <<IouZero, IouZero>>

\* _deduplicate_person_events is not taken alone
DedupParked ==
  /\ dedup_in = <<>>
  /\ dedup_out = <<>>
  /\ dedup_calls = 0
  /\ dedup_first = <<>>

PipeParked ==
  /\ pEnabled = ConfigEnabled
  /\ pOuts = [d \in Detectors |-> Ret(<<>>)]
  /\ pResult = NoResult
  /\ pPhase = "off"
  /\ DedupParked
  /\ IouParked

\* the fight detector has seen no frame
FightFresh ==
  /\ prev_bboxes = [c \in Cams |-> <<>>]
  /\ prev_slots = [c \in Cams |-> <<>>]
  /\ next_slot = [c \in Cams |-> 0]
  /\ fight_history = [c \in Cams |-> EmptyDict]
  /\ last_fight_time = [c \in Cams |-> NoTime]
  /\ fCall = NoCall
  /\ streak = [c \in Cams |-> [k \in Keys |-> 0]]
  /\ streakAll = [c \in Cams |-> [k \in Keys |-> 0]]
  /\ event_time = [c \in Cams |-> NoTime]
  /\ issued = [c \in Cams |-> {}]
  /\ entities = [c \in Cams |-> <<>>]
  /\ seen = [c \in Cams |-> {}]
  /\ before = NoBefore
  /\ quiet = [c \in Cams |-> 0]
  /\ solo = [c \in Cams |-> 0]
  /\ age = [c \in Cams |-> [k \in Keys |-> 0]]

FightParked == FightFresh /\ now = 0

\* the Gemini weapon detector has made no call
GeminiFresh ==
  /\ last_call = [c \in Cams |-> NoTime]
  /\ gCall = NoGeminiCall
  /\ call_time = [c \in Cams |-> NoTime]
  /\ calls = {}

GeminiParked == GeminiFresh /\ gemini_enabled = FALSE

SchedInit ==
  /\ online \in [Cams -> BOOLEAN]
  /\ hasFrame = [c \in Cams |-> FALSE]
  /\ decoding = online
  /\ pc = "visit"
  /\ cur = 1
  /\ events = <<>>
  /\ emitted = <<>>
  /\ visits = <<>>
  /\ failed = FALSE
  /\ running = <<>>
  /\ future = NoFuture
  /\ enabled = ConfigEnabled
  /\ fightCams = {}
  /\ connections = {}
  /\ wsPc = [w \in WS |-> "new"]
  /\ bPc = "idle"
  /\ bTargets = {}
  /\ bDead = {}
  /\ PipeParked
  /\ FightParked
  /\ GeminiParked

camVars == <<online, hasFrame, decoding>>
loopVars == <<pc, cur, events, emitted, visits>>
poolVars == <<running, future>>
detVars == <<enabled, fightCams, failed>>
wsVars == <<connections, wsPc>>
bcVars == <<bPc, bTargets, bDead>>

\* CameraCapture._decode_loop, one turn: a frame is read and cached, or reading
\* fails twice and the loop is left
DecodeLoop(c) ==
  /\ decoding[c]
  /\ \E ret \in BOOLEAN :
       IF ret
       THEN hasFrame' = [hasFrame EXCEPT ![c] = TRUE] /\ UNCHANGED decoding
       ELSE decoding' = [decoding EXCEPT ![c] = FALSE] /\ UNCHANGED hasFrame
  /\ UNCHANGED <<online, loopVars, poolVars, detVars, wsVars, bcVars>>
  /\ UNCHANGED restVars

\* a visit that does not wait for the invocation it dispatched
VisitNoAwait ==
  /\ pc = "visit"
  /\ MainFree
  /\ visits' = LastN(Append(visits, cur), NumCams + 1)
  /\ IF Skips(cur)
     THEN UNCHANGED running
     ELSE running' = Append(running, Task(cur))
  /\ pc' = "sleep"
  /\ UNCHANGED <<camVars, cur, events, emitted, future, detVars, wsVars, bcVars>>
  /\ UNCHANGED restVars

\* lines 72-86: one camera of the for loop, up to the first await
Visit ==
  /\ pc = "visit"
  /\ MainFree
  /\ visits' = LastN(Append(visits, cur), NumCams + 1)
  /\ IF Skips(cur)
     THEN pc' = "sleep" /\ UNCHANGED running
     ELSE pc' = "await" /\ running' = Append(running, Task(cur))
  /\ UNCHANGED <<camVars, cur, events, emitted, future, detVars, wsVars, bcVars>>
  /\ UNCHANGED restVars

\* a thread runs _run_detectors(frame, cam_id) to its end
WorkerRun ==
  /\ running # <<>>
  /\ \E outs \in SchedOuts :
       LET c == Head(running).cam
           r == RunDetectors(enabled, outs)
       IN /\ future' = [done |-> TRUE, raised |-> r.raised, result |-> r.events]
          \* FightDetector.detect makes the camera's history once the pose model returned
          /\ fightCams' = IF enabled["fight"] /\ ~outs["fight"].raised
                          THEN fightCams \cup {c} ELSE fightCams
          /\ failed' = (failed \/ \E d \in Detectors : enabled[d] /\ outs[d].raised)
  /\ running' = Tail(running)
  /\ UNCHANGED <<camVars, loopVars, enabled, wsVars, bcVars>>
  /\ UNCHANGED restVars

\* lines 84-91: the await of the future returns (or raises what the call raised)
Resume ==
  /\ pc = "await"
  /\ MainFree
  /\ future.done
  /\ future' = NoFuture
  /\ emitted' = <<>>
  /\ IF future.raised
     THEN pc' = "dead" /\ UNCHANGED events
     ELSE /\ events' = future.result
          /\ pc' = IF future.result = <<>> THEN "sleep" ELSE "broadcast"
  /\ UNCHANGED <<camVars, cur, visits, running, detVars, wsVars, bcVars>>
  /\ UNCHANGED restVars

\* ConnectionManager.broadcast, lines 21-25: the targets are copied under the lock
BroadcastStart ==
  /\ pc = "broadcast"
  /\ MainFree
  /\ bPc = "idle"
  /\ bPc' = "sending"
  /\ bTargets' = connections
  /\ bDead' = {}
  /\ emitted' = Append(emitted, Head(events))
  /\ events' = Tail(events)
  /\ UNCHANGED <<camVars, pc, cur, visits, poolVars, detVars, wsVars>>
  /\ UNCHANGED restVars

\* lines 26-30: one send_text, which returns or raises
BroadcastSend(w) ==
  /\ bPc = "sending"
  /\ MainFree
  /\ w \in bTargets
  /\ bTargets' = bTargets \ {w}
  /\ \E ok \in BOOLEAN : bDead' = IF ok THEN bDead ELSE bDead \cup {w}
  /\ UNCHANGED <<camVars, loopVars, poolVars, detVars, wsVars, bPc>>
  /\ UNCHANGED restVars

\* a broadcast that leaves the dead connections registered
BroadcastEndKeepsDead ==
  /\ bPc = "sending"
  /\ MainFree
  /\ bTargets = {}
  /\ connections' = connections
  /\ bDead' = {}
  /\ bPc' = "idle"
  /\ pc' = IF events = <<>> THEN "sleep" ELSE "broadcast"
  /\ emitted' = IF events = <<>> THEN <<>> ELSE emitted
  /\ UNCHANGED <<camVars, cur, events, visits, poolVars, detVars, wsPc, bTargets>>
  /\ UNCHANGED restVars

\* lines 31-33: the dead connections are removed; back in detection_loop
BroadcastEnd ==
  /\ bPc = "sending"
  /\ MainFree
  /\ bTargets = {}
  /\ connections' = connections \ bDead
  /\ bDead' = {}
  /\ bPc' = "idle"
  /\ pc' = IF events = <<>> THEN "sleep" ELSE "broadcast"
  \* the history of the invocation ends with its last broadcast
  /\ emitted' = IF events = <<>> THEN <<>> ELSE emitted
  /\ UNCHANGED <<camVars, cur, events, visits, poolVars, detVars, wsPc, bTargets>>
  /\ UNCHANGED restVars

\* await asyncio.sleep(_PER_CAMERA_SLEEP) returns; the for loop steps
Sleep ==
  /\ pc = "sleep"
  /\ MainFree
  /\ pc' = "visit"
  /\ cur' = NextCam(cur)
  /\ UNCHANGED <<camVars, events, emitted, visits, poolVars, detVars, wsVars, bcVars>>
  /\ UNCHANGED restVars

\* ConnectionManager.connect, line 13: await ws.accept()
WsAccept(w) ==
  /\ wsPc[w] = "new"
  /\ MainFree
  /\ wsPc' = [wsPc EXCEPT ![w] = "accepted"]
  /\ UNCHANGED <<camVars, loopVars, poolVars, detVars, connections, bcVars>>
  /\ UNCHANGED restVars

\* ConnectionManager.connect, lines 14-15
WsAdd(w) ==
  /\ wsPc[w] = "accepted"
  /\ MainFree
  /\ connections' = connections \cup {w}
  /\ wsPc' = [wsPc EXCEPT ![w] = "serving"]
  /\ UNCHANGED <<camVars, loopVars, poolVars, detVars, bcVars>>
  /\ UNCHANGED restVars

\* main.websocket_events: receive_text raises WebSocketDisconnect, and the
\* finally clause calls ConnectionManager.disconnect
WsDisconnect(w) ==
  /\ wsPc[w] = "serving"
  /\ MainFree
  /\ connections' = connections \ {w}
  /\ wsPc' = [wsPc EXCEPT ![w] = "closed"]
  /\ UNCHANGED <<camVars, loopVars, poolVars, detVars, bcVars>>
  /\ UNCHANGED restVars

LoopStep == Visit \/ Resume \/ BroadcastStart \/ BroadcastEnd \/ Sleep
           \/ \E w \in WS : BroadcastSend(w)

SchedNext ==
  \/ \E c \in Cams : DecodeLoop(c)
  \/ Visit
  \/ WorkerRun
  \/ Resume
  \/ BroadcastStart
  \/ \E w \in WS : BroadcastSend(w)
  \/ BroadcastEnd
  \/ Sleep
  \/ \E w \in WS : WsAccept(w)
  \/ \E w \in WS : WsAdd(w)
  \/ \E w \in WS : WsDisconnect(w)

Init == SchedInit
Next == SchedNext
Spec == Init /\ [][Next]_vars

\* the event loop runs every ready callback, the pool runs every submitted call
\* to its end, and a send_text returns or raises
FairSpec == Spec /\ WF_vars(LoopStep) /\ WF_vars(WorkerRun)

(***************************************************************************)
(* Claims about the scheduler                                              *)
(***************************************************************************)
\* the visit to camera c is over: the loop is in the pacing sleep after it
VisitDone(c) == pc = "sleep" /\ cur = c

\* in the window of the last NumCams + 1 visits, equal cameras are exactly
\* NumCams visits apart, and a full window starts and ends with the same camera
C1_Order ==
  /\ \A i, j \in 1..Len(visits) : (i < j /\ visits[i] = visits[j]) => j - i = NumCams
  /\ Len(visits) = NumCams + 1 => visits[1] = visits[NumCams + 1]

\* C1: detection_loop visits the cameras of the roster in a fixed cyclic order
\* forever: between two consecutive visits to a camera every other camera is
\* visited exactly once, whether a visit is processed or skipped, and the loop
\* never ends: it, or the invocation it waits for, can always take a step.
C1_CyclicOrderForever ==
  /\ C1_Order
  /\ pc # "dead"
  /\ ENABLED (LoopStep \/ WorkerRun)

\* a full turn has been made in which one camera was processed and one skipped
C1_Witness ==
  /\ Len(visits) = NumCams + 1
  /\ fightCams # {}
  /\ \E c \in Cams : ~online[c]

\* C2: provided every detector call returns or raises, a detector failure never
\* ends detection_loop: once a detector call has raised, every camera of the
\* roster is still visited again and again.
C2_FailureNeverHaltsLoop ==
  \A c \in Cams : failed ~> VisitDone(c)

\* a detector has raised and the loop stands at a later visit
C2_Witness ==
  /\ failed
  /\ pc = "visit"
  /\ Len(visits) = NumCams + 1

\* C3: a visit to a camera that has no capture, is offline or has no frame
\* submits no invocation, leaves the detectors' per-camera state as it is, hands
\* nothing to broadcast, and goes to the pacing sleep, from which the loop steps
\* to the next camera of the roster.
C3_SkipChargesNothing ==
  [][ /\ (pc = "visit" /\ pc' # "visit" /\ (~online[cur] \/ ~hasFrame[cur]))
         => /\ pc' = "sleep"
            /\ UNCHANGED <<running, future, fightCams, failed,
                           events, emitted, bPc, bTargets, bDead, cur>>
      /\ (pc = "sleep" /\ pc' # "sleep")
         => (pc' = "visit" /\ cur' = NextCam(cur)) ]_vars

\* a camera without a frame has just been skipped, after another was processed
C3_Witness ==
  /\ pc = "sleep"
  /\ online[cur] /\ ~hasFrame[cur]
  /\ fightCams # {}

\* C4: at most one _run_detectors invocation is in flight, and while one is in
\* flight the loop waits for it: the previous invocation has returned and all
\* of its events have been handed to broadcast, which has finished.
C4_OneInvocationInFlight ==
  /\ Len(running) <= 1
  /\ running # <<>> =>
       /\ pc = "await"
       /\ ~future.done
       /\ events = <<>>
       /\ bPc = "idle"

\* an invocation is in flight for a camera after an earlier one has completed
C4_Witness ==
  /\ running # <<>>
  /\ fightCams # {}
  /\ Head(running).cam \notin fightCams

\* C5: while an invocation runs in the pool, every step of a subscriber's
\* connect and disconnect can be taken.
C5_ServingNotBlocked ==
  running # <<>> =>
    \A w \in WS :
      /\ wsPc[w] = "new" => ENABLED WsAccept(w)
      /\ wsPc[w] = "accepted" => ENABLED WsAdd(w)
      /\ wsPc[w] = "serving" => ENABLED WsDisconnect(w)

\* a websocket connected and disconnected while one invocation was running
C5_Witness ==
  /\ running # <<>>
  /\ \E w \in WS : Head(running).wsAt[w] = "new" /\ wsPc[w] = "closed"

\* the place of a detector in _detectors
DetectorRank(d) == CHOOSE i \in 1..Len(DetectorOrder) : DetectorOrder[i] = d

\* C8: the events of one pipeline invocation are broadcast in detector
\* execution order: every event of a detector earlier in the pipeline list
\* (person, fight, motion, weapon) is broadcast before every event of a later
\* detector.
C8_DetectorOrder ==
  \A i, j \in 1..Len(emitted) :
    i < j => DetectorRank(emitted[i].det) <= DetectorRank(emitted[j].det)

(***************************************************************************)
(* _run_detectors taken alone: one call on one frame, for every toggle     *)
(* setting and every behaviour of the four detect calls                    *)
(***************************************************************************)
PipeP2 == Ev("person_detected", 600, BoxA2, "none", "person")
PipeP3 == Ev("person_detected", 500, BoxFar, "none", "person")
PipePfHi == Ev("person_detected", 950, BoxA2, "fight_detector", "fight")

\* PersonDetector.detect: one person_detected event per box of the model's result
PersonOuts == {Raise} \cup {Ret(q) : q \in ListsOf({SchedP, PipeP2, PipeP3}, MaxPersonEvents)}

\* FightDetector.detect returns person_events + fight_events
FightOuts == {Raise, Ret(<<>>), Ret(<<PipePfHi>>), Ret(<<SchedPf, SchedF>>)}

MotionOuts == {Raise, Ret(<<>>), Ret(<<SchedM>>)}

WeaponOuts == {Raise, Ret(<<>>), Ret(<<SchedW>>)}

PipeOuts ==
  { [d \in Detectors |->
       CASE d = "person" -> p [] d = "fight" -> f [] d = "motion" -> m [] OTHER -> w] :
    p \in PersonOuts, f \in FightOuts, m \in MotionOuts, w \in WeaponOuts }

\* the scheduler stands still
SchedParked ==
  /\ online = [c \in Cams |-> FALSE]
  /\ hasFrame = [c \in Cams |-> FALSE]
  /\ decoding = [c \in Cams |-> FALSE]
  /\ pc = "off"
  /\ cur = 1
  /\ events = <<>>
  /\ emitted = <<>>
  /\ visits = <<>>
  /\ failed = FALSE
  /\ running = <<>>
  /\ future = NoFuture
  /\ enabled = ConfigEnabled
  /\ fightCams = {}
  /\ connections = {}
  /\ wsPc = [w \in WS |-> "closed"]
  /\ bPc = "idle"
  /\ bTargets = {}
  /\ bDead = {}

PipeInit ==
  /\ pEnabled \in [Detectors -> BOOLEAN]
  /\ pOuts \in PipeOuts
  /\ pResult = NoResult
  /\ pPhase = "ready"
  /\ DedupParked
  /\ IouParked
  /\ SchedParked
  /\ FightParked
  /\ GeminiParked

\* the call _run_detectors(frame, cam_id), lines 147-166
PipeRun ==
  /\ pPhase = "ready"
  /\ pResult' = RunDetectors(pEnabled, pOuts)
  /\ pPhase' = "done"
  /\ UNCHANGED <<pEnabled, pOuts, dedupVars, iouVars, schedVars, fightVars, geminiVars>>

PipeNext == PipeRun

SpecPipe == PipeInit /\ [][PipeNext]_vars

\* event e is in the list evs; the source tag is internal to the pipeline
\* (the deduplication pops it) and does not tell two events apart
Present(e, evs) == \E x \in Range(evs) : PopSource(x) = PopSource(e)

\* the detect call of d was made and raised
RaisedIn(d) == pPhase = "done" /\ pEnabled[d] /\ pOuts[d].raised

\* the detect call of d was made and returned
ReturnedIn(d) == pPhase = "done" /\ pEnabled[d] /\ ~pOuts[d].raised

\* the events the detectors other than d returned, with their detector
OthersEvents(d) ==
  UNION {Range(pOuts[e].events) : e \in {x \in Detectors \ {d} : ReturnedIn(x)}}

\* what the call would have returned had d returned an empty list
HadReturnedEmpty(d) == RunDetectors(pEnabled, [pOuts EXCEPT ![d] = Ret(<<>>)]).events

\* C6 as stated: if a detect call raises, _run_detectors raises nothing, every
\* other enabled detector is still invoked, and every event the other
\* detectors returned is in the returned list.
C6_OthersEventsAllPresent ==
  \A d \in Detectors : RaisedIn(d) =>
    /\ ~pResult.raised
    /\ \A e \in Detectors \ {d} : pEnabled[e] => e \in pResult.invoked
    /\ \A ev \in OthersEvents(d) : Present(ev, pResult.events)

\* C6, amended: if a detect call raises, _run_detectors raises nothing, every
\* other enabled detector is still invoked, every event that is not a person
\* event and that another detector returned is in the returned list, and so is
\* every event the list would hold had the failing detector returned an empty
\* list; a person event of another detector is missing only when the
\* deduplication ran (the fight detector is enabled and returned) and another
\* person event of the call overlaps it with IoU above 0.5 and has at least its
\* confidence.
C6_FaultSuppressesNothing ==
  \A d \in Detectors : RaisedIn(d) =>
    /\ ~pResult.raised
    /\ \A e \in Detectors \ {d} : pEnabled[e] => e \in pResult.invoked
    /\ \A ev \in OthersEvents(d) :
         \/ Present(ev, pResult.events)
         \/ /\ IsPerson(ev)
            /\ ReturnedIn("fight")
            /\ \E ev2 \in OthersEvents(d) \ {ev} :
                 /\ IsPerson(ev2)
                 /\ ev2.confidence >= ev.confidence
                 /\ OverDedupThreshold(ComputeIou(ToXYXY(ev.bounding_box),
                                                  ToXYXY(ev2.bounding_box)))
    /\ \A x \in Range(HadReturnedEmpty(d)) : Present(x, pResult.events)

\* the motion detector raised, the three others returned events, and the
\* deduplication merged a person event of the person detector into another
C6_Witness ==
  /\ RaisedIn("motion")
  /\ \A e \in {"person", "fight", "weapon"} : ReturnedIn(e) /\ pOuts[e].events # <<>>
  /\ \E ev \in Range(pOuts["person"].events) : ~Present(ev, pResult.events)
  /\ Present(SchedW, pResult.events)

\* C7 as stated: for every detector D and every combination of outputs of the
\* others, the list returned when D raises equals the list returned when D
\* returns an empty list.
C7_RaiseEqualsEmpty ==
  \A d \in Detectors : RaisedIn(d) => pResult.events = HadReturnedEmpty(d)

(***************************************************************************)
(* FightDetector.detect taken alone: the detect calls of the cameras, one  *)
(* after the other, on every frame and at every time                       *)
(***************************************************************************)
FightInit ==
  /\ FightFresh
  /\ now = 0
  /\ SchedParked
  /\ PipeParked
  /\ GeminiParked

\* FightDetector.detect(frame, cam_id), lines 106-260, when the pose model
\* returns the poses of one of the frames; inputs[n] holds what the keypoints
\* of a frame of n poses can show to the criteria, as <<arm, moved, posture>>
DetectOn(c, frames, inputs) ==
  /\ \E poses \in frames :
     \E assigned \in {AssignSlots(prev_bboxes[c], prev_slots[c], next_slot[c], poses)} :
       /\ assigned.next <= MaxSlot + 1
       /\ \E inp \in inputs[Len(poses)] :
          \E st \in {IF Len(poses) >= 2
                     THEN PairLoop(Combinations(Len(poses)), 1,
                                   LoopStart(fight_history[c], last_fight_time[c]),
                                   poses, assigned.slots, prev_bboxes[c],
                                   inp[1], inp[2], inp[3], now)
                     ELSE LoopStart(fight_history[c], last_fight_time[c])} :
          \E gated \in {GatedAndPassed(poses, assigned.slots, prev_bboxes[c],
                                       inp[1], inp[2], inp[3])} :
            /\ next_slot' = [next_slot EXCEPT ![c] = assigned.next]
            /\ fight_history' = [fight_history EXCEPT ![c] =
                                   DropStale(st.history, st.active_pairs)]
            /\ last_fight_time' = StoreLastFight(last_fight_time, c, st.last)
            /\ prev_bboxes' = [prev_bboxes EXCEPT ![c] =
                                 [i \in 1..Len(poses) |-> poses[i].bbox_xyxy_norm]]
            /\ prev_slots' = [prev_slots EXCEPT ![c] = assigned.slots]
            /\ fCall' = [cam |-> c, raised |-> FALSE, events |-> st.fight_events,
                         fired |-> st.fired, wasFull |-> st.wasFull,
                         fresh |-> assigned.fresh, boxes |-> st.fight_boxes]
            /\ streak' = [streak EXCEPT ![c] =
                            [k \in Keys |-> IF k \in gated
                                            THEN Min(FIGHT_SUSTAIN_FRAMES, streak[c][k] + 1)
                                            ELSE 0]]
            /\ streakAll' = [streakAll EXCEPT ![c] =
                               [k \in Keys |-> IF k \in gated
                                               THEN Min(FIGHT_SUSTAIN_FRAMES, streakAll[c][k] + 1)
                                               ELSE 0]]
            /\ event_time' = [event_time EXCEPT ![c] =
                                IF st.fight_events # <<>> THEN now ELSE @]
            /\ issued' = [issued EXCEPT ![c] = @ \cup Range(assigned.slots)]
  /\ fightCams' = fightCams \cup {c}
  /\ UNCHANGED <<now, schedRest, pipeVars, geminiVars>>

\* a detect call on a frame of the camera, whoever the people in it are
Detect(c) ==
  /\ DetectOn(c, FramesOf(c), FightInputs)
  /\ UNCHANGED <<entities, seen, before, quiet, solo, age>>

\* a call that raises after it has dropped the camera's buffers
DetectRaisesResetting(c) ==
  /\ fCall' = [NoCall EXCEPT !.cam = c, !.raised = TRUE]
  /\ streakAll' = [streakAll EXCEPT ![c] = [k \in Keys |-> 0]]
  /\ fight_history' = [fight_history EXCEPT ![c] = EmptyDict]
  /\ UNCHANGED <<prev_bboxes, prev_slots, next_slot, last_fight_time,
                 now, streak, event_time, issued, entities, seen,
                 before, quiet, solo, age,
                 schedVars, pipeVars, geminiVars>>

\* FightDetector.detect(frame, cam_id) when the pose model raises (lines
\* 111-115): the call ends before it touches the tracker
DetectRaises(c) ==
  /\ fCall' = [NoCall EXCEPT !.cam = c, !.raised = TRUE]
  /\ streakAll' = [streakAll EXCEPT ![c] = [k \in Keys |-> 0]]
  /\ UNCHANGED <<prev_bboxes, prev_slots, next_slot, fight_history, last_fight_time,
                 now, streak, event_time, issued, entities, seen,
                 before, quiet, solo, age,
                 schedVars, pipeVars, geminiVars>>

\* a second passes on the monotonic clock
Tick ==
  /\ now < MaxTime
  /\ now' = now + 1
  /\ fCall' = NoCall
  /\ UNCHANGED <<prev_bboxes, prev_slots, next_slot, fight_history, last_fight_time,
                 streak, streakAll, event_time, issued, entities, seen,
                 before, quiet, solo, age,
                 schedVars, pipeVars, geminiVars>>

\* what time.monotonic() reads when detect is called on every frame: the
\* multiples of the cooldown (calls at one reading are no time apart, calls
\* at readings in a row a cooldown apart)
FightClock == {t \in 0..MaxTime : t % FIGHT_EVENT_COOLDOWN_SECS = 0}

\* the monotonic clock goes on to its next reading
FightTick ==
  /\ \E t \in FightClock :
       /\ t > now
       /\ \A u \in FightClock : u > now => t <= u
       /\ now' = t
  /\ fCall' = NoCall
  /\ UNCHANGED <<prev_bboxes, prev_slots, next_slot, fight_history, last_fight_time,
                 streak, streakAll, event_time, issued, entities, seen,
                 before, quiet, solo, age,
                 schedVars, pipeVars, geminiVars>>

FightNext ==
  \/ \E c \in Cams : Detect(c)
  \/ \E c \in Cams : DetectRaises(c)
  \/ FightTick

SpecFight == FightInit /\ [][FightNext]_vars

\* C9 as stated: detect emits a fight event for a pair only if, after the
\* push of the call, the pair's buffer holds exactly FIGHT_SUSTAIN_FRAMES
\* entries, all true, and the camera's cooldown has elapsed; hence the pair
\* was proximity-gated and passed in each of the last FIGHT_SUSTAIN_FRAMES
\* detect calls of that camera, a call that raised being one of them.
C9_PassedInEachOfLastCycles ==
  [][\A c \in Cams : \A k \in Keys :
       (fCall'.cam = c /\ fCall'.fired = k) =>
         /\ k \in DOMAIN fight_history'[c]
         /\ fight_history'[c][k] = AllPassed
         /\ last_fight_time[c] # NoTime => now - last_fight_time[c] >= FIGHT_EVENT_COOLDOWN_SECS
         /\ streakAll'[c][k] = FIGHT_SUSTAIN_FRAMES]_vars

\* C9, amended: detect emits a fight event for a pair only if, after the push
\* of the call, the pair's buffer holds exactly FIGHT_SUSTAIN_FRAMES entries,
\* all true, and the camera's cooldown has elapsed; hence the pair was
\* proximity-gated and passed in each of the last FIGHT_SUSTAIN_FRAMES detect
\* calls of that camera that returned (a call in which the pose model raised
\* leaves the buffers as they are and does not break the run).
C9_FiresOnlyWhenSustained ==
  [][\A c \in Cams : \A k \in Keys :
       (fCall'.cam = c /\ fCall'.fired = k) =>
         /\ k \in DOMAIN fight_history'[c]
         /\ fight_history'[c][k] = AllPassed
         /\ last_fight_time[c] # NoTime => now - last_fight_time[c] >= FIGHT_EVENT_COOLDOWN_SECS
         /\ streak'[c][k] = FIGHT_SUSTAIN_FRAMES]_vars

\* a detect call has just emitted a fight event for a pair whose buffer is full
\* of passes, twice the cooldown or more on the clock
C9_Witness ==
  /\ fCall.fired \in Keys
  /\ fCall.cam \in Cams
  /\ fight_history[fCall.cam][fCall.fired] = AllPassed
  /\ last_fight_time[fCall.cam] = now
  /\ now >= 2 * FIGHT_EVENT_COOLDOWN_SECS

\* C10: in every reachable state every sustain buffer of every camera holds at
\* most FIGHT_SUSTAIN_FRAMES entries, and a push into a full buffer drops the
\* oldest entry: the buffer is then its old tail followed by the new entry.
C10_SustainBufferCapacity ==
  /\ [](\A c \in Cams : \A k \in DOMAIN fight_history[c] :
          Len(fight_history[c][k]) <= FIGHT_SUSTAIN_FRAMES)
  /\ [][\A c \in Cams : \A k \in Keys :
          (fCall'.cam = c /\ k \in fCall'.wasFull) =>
            /\ k \in DOMAIN fight_history'[c]
            /\ Len(fight_history'[c][k]) = FIGHT_SUSTAIN_FRAMES
            /\ \A i \in 1..(FIGHT_SUSTAIN_FRAMES - 1) :
                 fight_history'[c][k][i] = fight_history[c][k][i + 1]]_vars

\* a full buffer has just been pushed into, and a fail came in behind two passes
C10_Witness ==
  /\ fCall.cam \in Cams
  /\ \E k \in fCall.wasFull :
       /\ k \in DOMAIN fight_history[fCall.cam]
       /\ fight_history[fCall.cam][k] = <<TRUE, TRUE, FALSE>>

(***************************************************************************)
(* FightDetector.detect in front of a group: the detect calls of the first *)
(* camera on frames of up to three people, several pairs at a time         *)
(***************************************************************************)
\* the frames of the group: nobody; two people close to each other; the two
\* and a third one, close to the second and too far from the first
CrowdFrames ==
  { <<>>,
    <<PoseAt(0), PoseAt(3)>>,
    <<PoseAt(0), PoseAt(3), PoseAt(6)>> }

\* the pairs of neighbours with a wrist inside the other's box, in a frame of
\* n poses of the group
CrowdArms(n) == SUBSET {p \in {<<1, 2>>, <<2, 3>>} : p[2] <= n}

\* what the keypoints of a frame of n poses of the group show: everybody holds
\* a wrist above the shoulder and nobody moves fast, so that a pair passes
\* when a wrist of one is inside the box of the other
CrowdInputs == [n \in 0..3 |-> CrowdArms(n) \X {{}} \X {1..n}]

\* a buffer that one more pass fills with passes
Ripe(buf) ==
  /\ Len(buf) >= FIGHT_SUSTAIN_FRAMES - 1
  /\ \A i \in 1..Len(buf) : i > Len(buf) - (FIGHT_SUSTAIN_FRAMES - 1) => buf[i]

\* the keys of the pairs of poses that are co-present and proximity-gated in a
\* frame of boxes bbs with slots sl
GatedKeys(bbs, sl) ==
  { PairKey(sl, p[1], p[2]) :
      p \in { q \in (1..Len(bbs)) \X (1..Len(bbs)) :
                /\ q[1] < q[2]
                /\ CheckProximity([bbox_xyxy_norm |-> bbs[q[1]]],
                                  [bbox_xyxy_norm |-> bbs[q[2]]]) } }

\* a detect call of the first camera on a frame of the group
CrowdDetect ==
    /\ DetectOn(1, CrowdFrames, CrowdInputs)
    /\ before' = [keys |-> DOMAIN fight_history[1],
                  ripe |-> {k \in DOMAIN fight_history[1] : Ripe(fight_history[1][k])},
                  quiet |-> quiet[1],
                  last |-> event_time[1]]
    /\ quiet' = [quiet EXCEPT ![1] =
                   IF fCall'.events # <<>> THEN 0
                   ELSE Min(FIGHT_SUSTAIN_FRAMES, @ + 1)]
    /\ solo' = [solo EXCEPT ![1] =
                  IF Len(prev_bboxes'[1]) = 2 THEN Min(FIGHT_SUSTAIN_FRAMES, @ + 1) ELSE 0]
    /\ age' = [age EXCEPT ![1] =
                 LET present == GatedKeys(prev_bboxes'[1], prev_slots'[1])
                 IN [k \in Keys |-> IF k \in present
                                    THEN Min(FIGHT_SUSTAIN_FRAMES, age[1][k] + 1)
                                    ELSE 0]]
    /\ UNCHANGED <<entities, seen>>

\* the detector is new and the monotonic clock has run for a cooldown already
CrowdInit ==
  /\ FightFresh
  /\ now = FIGHT_EVENT_COOLDOWN_SECS
  /\ SchedParked
  /\ PipeParked
  /\ GeminiParked

CrowdNext ==
  \/ CrowdDetect
  \/ Tick

SpecCrowd == CrowdInit /\ [][CrowdNext]_vars

\* the index, in a frame with slots sl, of the pose with slot s
IndexOf(sl, s) == CHOOSE i \in 1..Len(sl) : sl[i] = s

\* the place of the pair with key k in the iteration over the pairs of indices
\* of a frame with slots sl: pairs (a, b), a < b, in lexicographic order
PairRank(sl, k) ==
  LET a == IndexOf(sl, k[1])
      b == IndexOf(sl, k[2])
  IN Min(a, b) * Len(sl) + Max(a, b)

\* in a detect call of camera c, the pair with key k qualifies: it is in the
\* frame and proximity-gated, it passes, its buffer ended with
\* FIGHT_SUSTAIN_FRAMES - 1 passes when the call started, and the camera's
\* cooldown had elapsed
Qualifies(c, k) ==
  /\ k \in GatedKeys(prev_bboxes'[c], prev_slots'[c])
  /\ streak'[c][k] >= 1
  /\ k \in DOMAIN fight_history[c]
  /\ Ripe(fight_history[c][k])
  /\ CooldownElapsed(now, last_fight_time[c])

\* C11: one detect call returns at most one fight event, even when several
\* pairs have full unanimous buffers in the cycle; the pair the event is for
\* qualifies, and no qualifying pair comes before it in the iteration order
\* over the indices of the current frame.
C11_OneEventFirstPairWins ==
  [][\A c \in Cams :
       (fCall'.cam = c /\ ~fCall'.raised) =>
         /\ Len(fCall'.events) <= 1
         /\ \A k \in Keys :
              (fCall'.events # <<>> /\ fCall'.events[1] = k) =>
                /\ Qualifies(c, k)
                /\ \A q \in Keys :
                     Qualifies(c, q) =>
                       PairRank(prev_slots'[c], k) <= PairRank(prev_slots'[c], q)]_vars

\* a detect call has returned an event for one pair while another pair of the
\* frame, which passed too, had a buffer that its pass would have filled
C11_Witness ==
  /\ fCall.cam \in Cams
  /\ Len(fCall.events) = 1
  /\ \E q \in before.ripe :
       /\ q # fCall.events[1]
       /\ streak[fCall.cam][q] >= 1
       /\ q \in GatedKeys(prev_bboxes[fCall.cam], prev_slots[fCall.cam])

\* C12 as stated: with sustain window W = FIGHT_SUSTAIN_FRAMES, a pair that
\* becomes active (co-present and proximity-gated) on cycle 1 and passes on
\* cycles 1..W fires on cycle W when the cooldown permits (it has elapsed and no
\* other pair fired in the call), and on no earlier cycle; a pair that fails
\* on some cycle fires neither on that cycle nor on the following W - 1 cycles.
C12_FiresOnCycleW ==
  [][\A c \in Cams : \A k \in Keys :
       (fCall'.cam = c /\ ~fCall'.raised) =>
         /\ ( /\ age[c][k] = FIGHT_SUSTAIN_FRAMES - 1
              /\ age'[c][k] = FIGHT_SUSTAIN_FRAMES
              /\ streak[c][k] = FIGHT_SUSTAIN_FRAMES - 1
              /\ streak'[c][k] = FIGHT_SUSTAIN_FRAMES
              /\ CooldownElapsed(now, last_fight_time[c])
              /\ \A q \in Keys \ {k} : fCall'.events # <<q>> )
            => fCall'.events = <<k>>
         /\ fCall'.events = <<k>> => streak'[c][k] = FIGHT_SUSTAIN_FRAMES]_vars

\* C13: any two fight events of a camera are at least
\* FIGHT_EVENT_COOLDOWN_SECS apart on the monotonic clock, whichever pairs they
\* are for; in the detect call that follows one that returned an event, a
\* call inside the cooldown returns no event even when the pair keeps passing.
C13_EventsCooldownApart ==
  [][\A c \in Cams :
       (fCall'.cam = c /\ ~fCall'.raised /\ event_time[c] # NoTime) =>
         /\ fCall'.events # <<>> => now - event_time[c] >= FIGHT_EVENT_COOLDOWN_SECS
         /\ (quiet[c] = 0 /\ now - event_time[c] < FIGHT_EVENT_COOLDOWN_SECS)
              => fCall'.events = <<>>]_vars

\* the detect call after an event has passed a pair whose buffer was full and
\* stays full of passes, later and inside the cooldown, and has returned no event
C13_Witness ==
  /\ fCall.cam \in Cams
  /\ fCall.events = <<>>
  /\ before.quiet = 0
  /\ before.last # NoTime
  /\ now > before.last
  /\ now - before.last < FIGHT_EVENT_COOLDOWN_SECS
  /\ \E k \in fCall.wasFull :
       /\ k \in DOMAIN fight_history[fCall.cam]
       /\ fight_history[fCall.cam][k] = AllPassed

\* C14: firing does not reset the buffer.  When the frames of a camera have
\* shown exactly one pair since the call that returned its last event, and
\* the pair has passed in each of those calls and passes in this one, the
\* call returns an event for the pair as soon as the cooldown has elapsed,
\* however few calls there were since the last event.
C14_RefiresWhenCooldownElapsed ==
  [][\A c \in Cams : \A k \in Keys :
       ( /\ fCall'.cam = c /\ ~fCall'.raised
         /\ event_time[c] # NoTime
         /\ solo[c] >= Min(quiet[c] + 1, FIGHT_SUSTAIN_FRAMES)
         /\ streak[c][k] >= Min(quiet[c] + 1, FIGHT_SUSTAIN_FRAMES)
         /\ Len(prev_slots'[c]) = 2
         /\ k = PairKey(prev_slots'[c], 1, 2)
         /\ streak'[c][k] >= 1
         /\ now - event_time[c] >= FIGHT_EVENT_COOLDOWN_SECS )
       => fCall'.events = <<k>>]_vars

\* the only pair of the frame has fired again, one or two calls after the
\* call of its last event, out of a buffer that was full before the push
C14_Witness ==
  /\ fCall.cam \in Cams
  /\ Len(prev_slots[fCall.cam]) = 2
  /\ fCall.events = <<PairKey(prev_slots[fCall.cam], 1, 2)>>
  /\ fCall.events[1] \in fCall.wasFull
  /\ before.last # NoTime
  /\ before.quiet >= 1
  /\ before.quiet < FIGHT_SUSTAIN_FRAMES - 1
  /\ solo[fCall.cam] = FIGHT_SUSTAIN_FRAMES

\* C15: at the end of every detect call a buffer exists for a pair key only if
\* the pair was pushed to in the call, its poses being in the frame and
\* proximity-gated; a pair that is not co-present and proximity-gated has no
\* buffer afterwards, and a buffer that appears holds the one entry of the call.
C15_BuffersOnlyOfActivePairs ==
  [][\A c \in Cams :
       (fCall'.cam = c /\ ~fCall'.raised) =>
         /\ \A k \in DOMAIN fight_history'[c] :
              LET old == IF k \in DOMAIN fight_history[c] THEN fight_history[c][k] ELSE <<>>
                  new == fight_history'[c][k]
              IN /\ k \in GatedKeys(prev_bboxes'[c], prev_slots'[c])
                 /\ \E v \in BOOLEAN :
                      \/ new = Append(old, v)
                      \/ Len(old) = FIGHT_SUSTAIN_FRAMES /\ new = Append(Tail(old), v)
                 /\ k \notin DOMAIN fight_history[c] => Len(new) = 1
         /\ \A k \in Keys :
              k \notin GatedKeys(prev_bboxes'[c], prev_slots'[c])
                => k \notin DOMAIN fight_history'[c]]_vars

\* a detect call has ended with a buffer for one pair of the frame and none
\* for a pair that had one when the call started
C15_Witness ==
  /\ fCall.cam \in Cams
  /\ DOMAIN fight_history[fCall.cam] # {}
  /\ \E k \in before.keys :
       /\ k \notin DOMAIN fight_history[fCall.cam]
       /\ k \notin GatedKeys(prev_bboxes[fCall.cam], prev_slots[fCall.cam])

(***************************************************************************)
(* The tracker of FightDetector.detect taken alone: the detect calls of    *)
(* the first camera on frames of people who are told apart                 *)
(***************************************************************************)
\* the people in front of the camera
Entities == {"A", "B"}

\* the pose of person e standing at x; the boxes are 13 wide and 84 high
\* (diagonal 85), so that a shift by 6 gives an IoU of 7/19, above 0.3, a shift
\* by 7 an IoU of 6/20, which is 0.3, and a shift by 8 an IoU of 5/21, below 0.3.
\* Who the pose is of is not known to the detector.
TrackPoseAt(e, x) ==
  [bbox_xyxy_norm |-> <<x, 0, x + 13, 84>>, confidence |-> 800, entity |-> e]

TrackPositions == {0, 6, 7, 8}

\* the frames: up to MaxPoses people, each at a place of their own
TrackFrames ==
  { f \in ListsOf({TrackPoseAt(e, x) : e \in Entities, x \in TrackPositions}, MaxPoses) :
      \A i, j \in 1..Len(f) :
        i # j => /\ f[i].entity # f[j].entity
                 /\ f[i].bbox_xyxy_norm # f[j].bbox_xyxy_norm }

\* the keypoints show nothing to the criteria
TrackInputs == [n \in 0..(MaxPoses + 1) |-> {<<{}, {}, {}>>}]

\* a detect call of the first camera on a frame of people who are told apart
TrackDetect ==
  \E f \in TrackFrames :
    /\ DetectOn(1, {f}, TrackInputs)
    /\ entities' = [entities EXCEPT ![1] = [i \in 1..Len(f) |-> f[i].entity]]
    /\ seen' = [seen EXCEPT ![1] = @ \cup {f[i].entity : i \in 1..Len(f)}]
    /\ UNCHANGED <<before, quiet, solo, age>>

TrackNext == TrackDetect

SpecTrack == FightInit /\ [][TrackNext]_vars

\* iou >= 0.3, for an IoU kept as a fraction
AtLeastMatchThreshold(iou) == 10 * iou[1] >= 3 * iou[2]

\* C16: per camera, slot ids are minted in strictly increasing order and never
\* reused: every id _assign_slots gives to an unmatched detection is greater
\* than every id assigned on the camera before, the ids minted in one call
\* increase with the index of the detection, and the camera's next-id counter
\* never decreases.
C16_SlotIdsIncreaseNeverReused ==
  [][\A c \in Cams :
       (fCall'.cam = c /\ ~fCall'.raised) =>
         /\ next_slot'[c] >= next_slot[c]
         /\ \A i \in fCall'.fresh : \A s \in issued[c] : prev_slots'[c][i] > s
         /\ \A i, j \in fCall'.fresh : i < j => prev_slots'[c][i] < prev_slots'[c][j]]_vars

\* a detect call has minted an id for one detection and matched another, while
\* an id given out earlier is carried by nobody in the frame
C16_Witness ==
  /\ fCall.cam \in Cams
  /\ fCall.fresh # {}
  /\ \E i \in 1..Len(prev_slots[fCall.cam]) : i \notin fCall.fresh
  /\ \E s \in issued[fCall.cam] : \A i \in 1..Len(prev_slots[fCall.cam]) :
       prev_slots[fCall.cam][i] # s

\* C17 as stated: when a person who was in the previous frame of a camera
\* (with slot id s) is not in the current frame, and another person, never
\* seen on the camera before, is in the current frame with a box whose IoU
\* with the former's box of the previous frame is above the match threshold,
\* the newcomer gets an id distinct from s.
C17_NewcomerGetsNewId ==
  [][\A c \in Cams :
       (fCall'.cam = c /\ ~fCall'.raised) =>
         \A j \in 1..Len(prev_slots[c]) : \A i \in 1..Len(prev_slots'[c]) :
           ( /\ \A i2 \in 1..Len(entities'[c]) : entities'[c][i2] # entities[c][j]
             /\ entities'[c][i] \notin seen[c]
             /\ IouGreater(ComputeIouXYXY(prev_bboxes'[c][i], prev_bboxes[c][j]), <<3, 10>>) )
           => prev_slots'[c][i] # prev_slots[c][j]]_vars

\* C18 as stated: a current detection whose IoU with exactly one detection of
\* the previous frame is at least 0.3, the value 0.3 included (no other current
\* detection reaching 0.3 with that previous detection), inherits its slot id;
\* a detection whose best IoU against all previous detections is below 0.3
\* gets an id never used before on the camera.
C18_InheritsFromThreshold ==
  [][\A c \in Cams :
       (fCall'.cam = c /\ ~fCall'.raised) =>
         \A i \in 1..Len(prev_slots'[c]) :
           LET over(a, b) == AtLeastMatchThreshold(
                               ComputeIouXYXY(prev_bboxes'[c][a], prev_bboxes[c][b]))
               olds == 1..Len(prev_slots[c])
           IN /\ \A j \in olds :
                   ( /\ over(i, j)
                     /\ \A j2 \in olds \ {j} : ~over(i, j2)
                     /\ \A i2 \in 1..Len(prev_slots'[c]) : i2 # i => ~over(i2, j) )
                   => prev_slots'[c][i] = prev_slots[c][j]
              /\ (\A j \in olds : ~over(i, j)) => prev_slots'[c][i] \notin issued[c]]_vars

(***************************************************************************)
(* GeminiWeaponDetector.detect taken alone: the detect calls of the        *)
(* cameras, with and without persons, as the monotonic clock advances      *)
(***************************************************************************)
\* the detector is new, with or without an API key, and the clock starts
GeminiInit ==
  /\ GeminiFresh
  /\ gemini_enabled \in BOOLEAN
  /\ FightFresh
  /\ now = 0
  /\ SchedParked
  /\ PipeParked

\* GeminiWeaponDetector.detect(frame, cam_id, person_events), lines 106-180
GeminiCall(c, persons, piped, found) ==
  \E outcome \in GeminiOutcomes :
    /\ IF GeminiAdmits(gemini_enabled, persons, now, last_call[c])
       THEN /\ last_call' = Stamp(last_call, c, now)
            /\ call_time' = [call_time EXCEPT ![c] = IF outcome = "unsent" THEN @ ELSE now]
            /\ calls' = IF outcome = "unsent" THEN calls ELSE calls \cup {<<c, now>>}
            /\ gCall' = [cam |-> c, persons |-> persons,
                         called |-> outcome # "unsent",
                         returned |-> IF outcome = "weapon" THEN 1 ELSE 0,
                         outcome |-> outcome, piped |-> piped, found |-> found]
       ELSE /\ gCall' = [cam |-> c, persons |-> persons, called |-> FALSE, returned |-> 0,
                         outcome |-> "skipped", piped |-> piped, found |-> found]
            /\ UNCHANGED <<last_call, call_time, calls>>
    /\ UNCHANGED <<gemini_enabled, schedVars, pipeVars, fightVars>>

\* a detect call given person_events, empty or not
GeminiDetect(c) ==
  \E persons \in BOOLEAN : GeminiCall(c, persons, FALSE, FALSE)

\* the detect call _run_detectors makes for a detector of _detectors
\* (detector_pipeline.py lines 150-154), the run having found person events
\* or not before it
PipelineDetect(c) ==
  /\ gemini_enabled
  /\ \E found \in BOOLEAN : GeminiCall(c, PassedPersonEvents(found), TRUE, found)

\* the seconds that pass between two looks at the clock
ClockSteps == {10, 21, 29}

\* time passes on the monotonic clock
GeminiTick ==
  \E d \in ClockSteps :
    /\ now + d <= MaxClock
    /\ now' = now + d
    /\ gCall' = NoGeminiCall
    /\ UNCHANGED <<gemini_enabled, last_call, call_time, calls, schedVars, pipeVars,
                   prev_bboxes, prev_slots, next_slot, fight_history, last_fight_time,
                   fCall, streak, streakAll, event_time, issued, entities, seen,
                   before, quiet, solo, age>>

GeminiNext ==
  \/ \E c \in Cams : GeminiDetect(c)
  \/ \E c \in Cams : PipelineDetect(c)
  \/ GeminiTick

SpecGemini == GeminiInit /\ [][GeminiNext]_vars

\* C19: a detect call for a camera with no person events makes no external
\* call and leaves the camera's last-call time as it was, so that the call is
\* admitted afterwards exactly when it was admitted before.
C19_NoPersonsNoCallNoStamp ==
  [][\A c \in Cams :
       (gCall'.cam = c /\ ~gCall'.persons) =>
         /\ ~gCall'.called
         /\ call_time' = call_time
         /\ last_call' = last_call
         /\ GeminiCoolingDown(now', last_call'[c]) = GeminiCoolingDown(now, last_call[c])]_vars

\* a detect call without persons was skipped at a time when a call with
\* persons would have been admitted, an earlier call of the camera being a
\* cooldown or more back
C19_Witness ==
  /\ gCall.cam \in Cams
  /\ ~gCall.persons
  /\ ~gCall.called
  /\ gemini_enabled
  /\ call_time[gCall.cam] # NoTime
  /\ now - call_time[gCall.cam] >= GEMINI_WEAPON_COOLDOWN_SECS
  /\ last_call[gCall.cam] = call_time[gCall.cam]

\* C20: for every camera, any two external calls of detect for the camera are
\* at least GEMINI_WEAPON_COOLDOWN_SECS apart on the monotonic clock; a detect
\* call inside the window makes no external call even when persons are present.
C20_CallsCooldownApart ==
  [][\A c \in Cams :
       (gCall'.cam = c /\ call_time[c] # NoTime) =>
         /\ gCall'.called => now - call_time[c] >= GEMINI_WEAPON_COOLDOWN_SECS
         /\ (gCall'.persons /\ now - call_time[c] < GEMINI_WEAPON_COOLDOWN_SECS)
              => ~gCall'.called]_vars

\* a detect call with persons present, later than the camera's last external
\* call and inside its window, has made no external call
C20_Witness ==
  /\ gCall.cam \in Cams
  /\ gCall.persons
  /\ ~gCall.called
  /\ gemini_enabled
  /\ call_time[gCall.cam] # NoTime
  /\ now > call_time[gCall.cam]
  /\ now - call_time[gCall.cam] < GEMINI_WEAPON_COOLDOWN_SECS

\* GeminiCall ended with the call admitted: the clock of the camera is stamped
\* and generate_content is called unless preparing the request raised
Admitted(c) ==
  /\ gCall'.cam = c
  /\ last_call'[c] = now
  /\ gCall'.outcome \in GeminiOutcomes
  /\ gCall'.outcome # "unsent" => gCall'.called

\* C21: from a camera with no previous call and a cooldown of 30, a detect
\* call at t=0 with a person present performs the external call and stamps the
\* clock; after it a call at t=10 with a person present is skipped; a call at
\* t=31 with no person present is skipped; a call at t=31 with a person
\* present, the last one having been at t=0, performs the external call.
C21_AdmissionGateExample ==
  [][\A c \in Cams :
       (gCall'.cam = c /\ gemini_enabled /\ GEMINI_WEAPON_COOLDOWN_SECS = 30) =>
         /\ (now = 0 /\ last_call[c] = NoTime /\ gCall'.persons) => Admitted(c)
         /\ (now = 10 /\ last_call[c] = 0 /\ gCall'.persons) => gCall'.outcome = "skipped"
         /\ (now = 31 /\ ~gCall'.persons) => gCall'.outcome = "skipped"
         /\ (now = 31 /\ last_call[c] \in {NoTime, 0} /\ gCall'.persons) => Admitted(c)]_vars

\* C22: the last-call time of the camera is recorded when the external call
\* succeeds, with or without a weapon found, and an external call that fails
\* (API error, unparseable response) leaves it unchanged.
C22_StampOnlyOnSuccess ==
  [][\A c \in Cams :
       gCall'.cam = c =>
         /\ gCall'.outcome \in {"nothing", "weapon"} => last_call'[c] = now
         /\ gCall'.outcome = "error" => last_call'[c] = last_call[c]]_vars

Apart(t, u) == IF t >= u THEN t - u ELSE u - t

C25_PipelinePassesPersons ==
  [][\A c \in Cams :
       (gCall'.cam = c /\ gCall'.piped) =>
         /\ gCall'.persons = gCall'.found
         /\ (gCall'.found /\ ~GeminiCoolingDown(now, last_call[c])) => Admitted(c)]_vars

(***************************************************************************)
(* _deduplicate_person_events taken alone: one call per cycle, the cycles  *)
(* bringing equal events                                                   *)
(***************************************************************************)
\* boxes with IoU 0.5 (the first two), 0.75 (the third with either) and 0
DedupBoxes == {Box(0, 0, 3, 2), Box(1, 0, 3, 2), Box(0, 0, 4, 2), Box(10, 0, 3, 2)}

\* person events of the person detector and, tagged, of the fight detector
DedupPersons ==
  {Ev("person_detected", cf, b,
      IF b.width = 4 THEN "fight_detector" ELSE "none",
      IF b.width = 4 THEN "fight" ELSE "person") : cf \in {600, 900}, b \in DedupBoxes}

DedupOthers == {SchedM, SchedF}

DedupInputs == ListsOf(DedupPersons \cup DedupOthers, MaxDedup)

DedupInit ==
  /\ dedup_in \in DedupInputs
  /\ dedup_out = <<>>
  /\ dedup_calls = 0
  /\ dedup_first = <<>>
  /\ pEnabled = ConfigEnabled
  /\ pOuts = [d \in Detectors |-> Ret(<<>>)]
  /\ pResult = NoResult
  /\ pPhase = "off"
  /\ IouParked
  /\ SchedParked
  /\ FightParked
  /\ GeminiParked

\* one cycle: _deduplicate_person_events(all_events) on the events of the cycle
DedupCycle ==
  /\ dedup_calls < MaxCycles
  /\ dedup_out' = DeduplicatePersonEvents(dedup_in)
  /\ dedup_calls' = dedup_calls + 1
  /\ dedup_first' = IF dedup_calls = 0 THEN dedup_out' ELSE dedup_first
  /\ UNCHANGED <<dedup_in, pEnabled, pOuts, pResult, pPhase, iouVars,
                 schedVars, fightVars, geminiVars>>

DedupNext == DedupCycle

SpecDedup == DedupInit /\ [][DedupNext]_vars

\* the person events of a list and the others, in order
PersonsOf(evs) == SelectSeq(evs, IsPerson)
OthersOf(evs) == SelectSeq(evs, LAMBDA e : ~IsPerson(e))

\* the IoU of two events' boxes, as a pair <<inter, union>>
EventIou(e, f) == ComputeIou(ToXYXY(e.bounding_box), ToXYXY(f.bounding_box))

\* C26: when all person events of the input overlap pairwise with IoU above
\* 0.5, the output holds exactly one person event: the one of highest
\* confidence, the first in input order among those of highest confidence.
C26_OverlappingGroupKeepsBest ==
  LET pe == PersonsOf(dedup_in)
      best == CHOOSE i \in 1..Len(pe) :
                \A j \in 1..Len(pe) :
                  /\ pe[i].confidence >= pe[j].confidence
                  /\ j < i => pe[j].confidence < pe[i].confidence
  IN (/\ dedup_calls >= 1
      /\ Len(pe) >= 1
      /\ \A i, j \in 1..Len(pe) :
           i # j => 2 * EventIou(pe[i], pe[j])[1] > EventIou(pe[i], pe[j])[2])
     => PersonsOf(dedup_out) = <<PopSource(pe[best])>>

\* three person events overlapping pairwise, the last two tied for the
\* highest confidence, have been deduplicated
C26_Witness ==
  LET pe == PersonsOf(dedup_in)
  IN /\ dedup_calls >= 1
     /\ Len(pe) = 3
     /\ \A i, j \in 1..3 :
          i # j => 2 * EventIou(pe[i], pe[j])[1] > EventIou(pe[i], pe[j])[2]
     /\ pe[1].confidence < pe[2].confidence
     /\ pe[2].confidence = pe[3].confidence
     /\ PersonsOf(dedup_out) = <<PopSource(pe[2])>>

\* person event i of the list overlaps no other person event of it with IoU
\* above 0.5
Isolated(pe, i) ==
  \A j \in 1..Len(pe) :
    j # i => 2 * EventIou(pe[i], pe[j])[1] <= EventIou(pe[i], pe[j])[2]

\* C27: every person event whose IoU with every other person event of the
\* input is at most 0.5 is in the output exactly once with its confidence and
\* box; the events that are not person events are returned unchanged; and a
\* later cycle with equal events gets the same output, nothing being kept
\* between the calls.
C27_IsolatedAndOthersKept ==
  LET pe == PersonsOf(dedup_in)
      po == PersonsOf(dedup_out)
  IN dedup_calls >= 1 =>
       /\ \A i \in 1..Len(pe) :
            Isolated(pe, i) =>
              Cardinality({k \in 1..Len(po) :
                 /\ po[k].confidence = pe[i].confidence
                 /\ po[k].bounding_box = pe[i].bounding_box
                 /\ po[k] = PopSource(pe[i])}) = 1
       /\ OthersOf(dedup_out) = OthersOf(dedup_in)
       /\ dedup_calls >= 2 => dedup_out = dedup_first

\* the second cycle in a row brought two person events with IoU exactly 0.5
\* and a motion event, and all three are in the output
C27_Witness ==
  LET pe == PersonsOf(dedup_in)
  IN /\ dedup_calls >= 2
     /\ Len(pe) = 2
     /\ 2 * EventIou(pe[1], pe[2])[1] = EventIou(pe[1], pe[2])[2]
     /\ OthersOf(dedup_in) = <<SchedM>>
     /\ Len(dedup_out) = 3

(***************************************************************************)
(* _compute_iou and _compute_iou_xyxy taken alone, on every pair of boxes  *)
(* of a small grid, boxes of zero width or height included                 *)
(***************************************************************************)
\* the boxes (x1, y1, x2, y2) with x1 <= x2 and y1 <= y2 on the grid
IouBoxes ==
  {bb \in (0..MaxCoord) \X (0..MaxCoord) \X (0..MaxCoord) \X (0..MaxCoord) :
     bb[1] <= bb[3] /\ bb[2] <= bb[4]}

IouInit ==
  /\ iou_box_a \in IouBoxes
  /\ iou_box_b \in IouBoxes
  /\ iou_done = FALSE
  /\ iou_ab = <<IouZero, IouZero>>
  /\ iou_ba = <<IouZero, IouZero>>
  /\ iou_aa = <<IouZero, IouZero>>
  /\ pEnabled = ConfigEnabled
  /\ pOuts = [d \in Detectors |-> Ret(<<>>)]
  /\ pResult = NoResult
  /\ pPhase = "off"
  /\ DedupParked
  /\ SchedParked
  /\ FightParked
  /\ GeminiParked

\* the two functions called on (a, b), (b, a) and (a, a)
IouCall ==
  /\ ~iou_done
  /\ iou_done' = TRUE
  /\ iou_ab' = <<ComputeIou(iou_box_a, iou_box_b), ComputeIouXYXY(iou_box_a, iou_box_b)>>
  /\ iou_ba' = <<ComputeIou(iou_box_b, iou_box_a), ComputeIouXYXY(iou_box_b, iou_box_a)>>
  /\ iou_aa' = <<ComputeIou(iou_box_a, iou_box_a), ComputeIouXYXY(iou_box_a, iou_box_a)>>
  /\ UNCHANGED <<iou_box_a, iou_box_b, pEnabled, pOuts, pResult, pPhase, dedupVars,
                 schedVars, fightVars, geminiVars>>

IouNext == IouCall

SpecIou == IouInit /\ [][IouNext]_vars

\* two IoU values, kept as fractions, are the same number
SameIou(v, w) == v[1] * w[2] = w[1] * v[2]

\* the value is 1.0, the value is 0.0
IsOne(v) == v[1] = v[2]
IsZero(v) == v[1] = 0

\* the boxes share no interior point
Disjoint(a, b) == a[3] <= b[1] \/ b[3] <= a[1] \/ a[4] <= b[2] \/ b[4] <= a[2]

\* width times height
Area(a) == (a[3] - a[1]) * (a[4] - a[2])

C28_OtherCamerasUntouched ==
  [][\A c \in Cams :
       fCall'.cam = c =>
         \A b \in Cams \ {c} :
           /\ prev_bboxes'[b] = prev_bboxes[b]
           /\ prev_slots'[b] = prev_slots[b]
           /\ next_slot'[b] = next_slot[b]
           /\ fight_history'[b] = fight_history[b]
           /\ last_fight_time'[b] = last_fight_time[b]]_vars

\* a detect call has returned for a camera while another camera holds two
\* tracked people, a full sustain buffer and a running cooldown clock
C28_Witness ==
  /\ fCall.cam \in Cams
  /\ ~fCall.raised
  /\ \E b \in Cams \ {fCall.cam} :
        /\ Len(prev_bboxes[b]) = 2
        /\ next_slot[b] >= 2
        /\ last_fight_time[b] # NoTime
        /\ \E k \in DOMAIN fight_history[b] :
              Len(fight_history[b][k]) = FIGHT_SUSTAIN_FRAMES

\* C29: two people who stay within the proximity gate and meet at least
\* FIGHT_MIN_CRITERIA criteria for exactly FIGHT_SUSTAIN_FRAMES cycles in a row
\* produce exactly one fight event, on the last of those cycles (no cooldown
\* of an earlier event of the camera running), and its bounding box is the
\* smallest box enclosing the two people's boxes of that cycle.
C29_SustainedPairFiresOnce ==
  [][\A c \in Cams : \A k \in Keys :
       (fCall'.cam = c /\ ~fCall'.raised /\ Len(prev_bboxes'[c]) = 2) =>
         LET pa == prev_bboxes'[c][1]
             pb == prev_bboxes'[c][2]
             x1 == IF pa[1] <= pb[1] THEN pa[1] ELSE pb[1]
             y1 == IF pa[2] <= pb[2] THEN pa[2] ELSE pb[2]
             x2 == IF pa[3] >= pb[3] THEN pa[3] ELSE pb[3]
             y2 == IF pa[4] >= pb[4] THEN pa[4] ELSE pb[4]
         IN /\ ( /\ streak[c][k] = FIGHT_SUSTAIN_FRAMES - 1
                 /\ streak'[c][k] = FIGHT_SUSTAIN_FRAMES
                 /\ \/ event_time[c] = NoTime
                    \/ now - event_time[c] >= FIGHT_EVENT_COOLDOWN_SECS )
               => /\ fCall'.events = <<k>>
                  /\ fCall'.boxes = <<Box(x1, y1, x2 - x1, y2 - y1)>>
            /\ streak'[c][k] < FIGHT_SUSTAIN_FRAMES => fCall'.events # <<k>>]_vars

(***************************************************************************)
(* The frame source seen by the scheduler                                  *)
(***************************************************************************)
\* C31: a camera whose decode loop has exited because reading failed is
\* absent from then on: every visit of the scheduler finds it offline or
\* without a frame and skips it, and the pipeline is never run for it again.
C31_StoppedCameraIsSkipped ==
  [][(pc = "visit" /\ pc' = "await") => decoding[cur]]_vars

(***************************************************************************)
(* _deduplicate_person_events: what is kept and what is discarded          *)
(***************************************************************************)
\* C32: no two person events of the output overlap with IoU above 0.5,
\* whatever the input list.
C32_KeptDoNotOverlap ==
  LET po == PersonsOf(dedup_out)
  IN dedup_calls >= 1 =>
       \A i, j \in 1..Len(po) :
         i < j => 2 * EventIou(po[i], po[j])[1] <= EventIou(po[i], po[j])[2]

\* three person events went in, two of them overlapping, and two came out
C32_Witness ==
  LET pe == PersonsOf(dedup_in)
  IN /\ dedup_calls >= 1
     /\ Len(pe) = 3
     /\ 2 * EventIou(pe[1], pe[3])[1] > EventIou(pe[1], pe[3])[2]
     /\ Len(PersonsOf(dedup_out)) = 2

\* C33: every person event that is discarded overlaps, with IoU above 0.5, a
\* person event that is kept and whose confidence is at least as high; none
\* is discarded only because of an event that is itself discarded.
C33_DiscardedHasKeptRival ==
  LET pe == PersonsOf(dedup_in)
      po == PersonsOf(dedup_out)
  IN dedup_calls >= 1 =>
       \A i \in 1..Len(pe) :
         (\A k \in 1..Len(po) : po[k] # PopSource(pe[i])) =>
           \E k \in 1..Len(po) :
             /\ 2 * EventIou(pe[i], po[k])[1] > EventIou(pe[i], po[k])[2]
             /\ po[k].confidence >= pe[i].confidence

(***************************************************************************)
(* _assign_slots and the pair keys                                         *)
(***************************************************************************)
\* C34: the slot ids _assign_slots returns for a camera in one cycle are
\* pairwise distinct, and every pair key of the sustain history is a pair
\* (a, b) with a strictly less than b.
C34_SlotsDistinctKeysOrdered ==
  \A c \in Cams :
    /\ \A i, j \in 1..Len(prev_slots[c]) : i # j => prev_slots[c][i] # prev_slots[c][j]
    /\ \A k \in DOMAIN fight_history[c] : k[1] < k[2]

\* two detections that overlap each other above the match threshold: one has
\* inherited a slot, the other was given a fresh one, and the pair has a buffer
C34_Witness ==
  /\ fCall.cam = 1 /\ ~fCall.raised
  /\ Len(prev_slots[1]) = 2
  /\ fCall.fresh = {2}
  /\ IouGreater(ComputeIouXYXY(prev_bboxes[1][1], prev_bboxes[1][2]), <<3, 10>>)
  /\ DOMAIN fight_history[1] = {PairKey(prev_slots[1], 1, 2)}

C35_BufferKeptWhileActive ==
  [][\A c \in Cams : \A k \in Keys :
       ( /\ fCall'.cam = c /\ ~fCall'.raised
         /\ k \in DOMAIN fight_history[c]
         /\ k \in GatedKeys(prev_bboxes'[c], prev_slots'[c]) )
       => k \in DOMAIN fight_history'[c]]_vars

\* C39: on a camera that has never emitted a fight event the cooldown does
\* not suppress the first firing: the first detect call that leaves a pair's
\* buffer full and unanimous returns a fight_detected event, whatever the
\* monotonic clock reads.
C39_FirstFiringNotSuppressed ==
  [][\A c \in Cams :
       ( /\ fCall'.cam = c /\ ~fCall'.raised
         /\ last_fight_time[c] = NoTime
         /\ \E k \in DOMAIN fight_history'[c] : fight_history'[c][k] = AllPassed )
       => Len(fCall'.events) = 1]_vars

\* C38: when the pose-model call inside detect raises, the camera's tracker
\* state (previous boxes and keypoints, slot ids, next-id counter, sustain
\* buffers, fight cooldown clock) is what it was before the call.
C38_RaiseLeavesTrackerState ==
  [][fCall'.raised =>
       /\ prev_bboxes' = prev_bboxes
       /\ prev_slots' = prev_slots
       /\ next_slot' = next_slot
       /\ fight_history' = fight_history
       /\ last_fight_time' = last_fight_time]_vars

\* the pose model has raised on a camera that tracks two people, holds a
\* buffer for them and has emitted a fight event
C38_Witness ==
  /\ fCall.cam \in Cams /\ fCall.raised
  /\ Len(prev_slots[fCall.cam]) = 2
  /\ next_slot[fCall.cam] >= 2
  /\ DOMAIN fight_history[fCall.cam] # {}
  /\ last_fight_time[fCall.cam] # NoTime

(***************************************************************************)
(* _compute_velocities against _assign_slots                               *)
(***************************************************************************)
\* C37: in a detect call that computes velocities (two poses or more), the
\* previous-frame detection a person's keypoint velocity is measured against
\* is the one whose slot id the person inherited, and a person who was given
\* a fresh slot id is measured against none (velocity 0).
C37_VelocityFollowsSlot ==
  [][\A c \in Cams :
       (fCall'.cam = c /\ ~fCall'.raised /\ Len(prev_slots'[c]) >= 2) =>
         \A i \in 1..Len(prev_slots'[c]) :
           LET v == VelocityPrev(prev_bboxes'[c][i], prev_bboxes[c])
           IN /\ i \in fCall'.fresh => v = 0
              /\ v # 0 => prev_slots'[c][i] = prev_slots[c][v]]_vars

(***************************************************************************)
(* ConnectionManager.broadcast among connect and disconnect                *)
(***************************************************************************)
\* the websockets that connect while events are published
Subscribers == 1..(NumWS + 1)

\* no camera is visited; the detection loop is about to publish
WsInit ==
  /\ online = [c \in Cams |-> FALSE]
  /\ hasFrame = [c \in Cams |-> FALSE]
  /\ decoding = [c \in Cams |-> FALSE]
  /\ pc = "sleep"
  /\ cur = 1
  /\ events = <<>>
  /\ emitted = <<>>
  /\ visits = <<>>
  /\ failed = FALSE
  /\ running = <<>>
  /\ future = NoFuture
  /\ enabled = ConfigEnabled
  /\ fightCams = {}
  /\ connections = {}
  /\ wsPc = [w \in Subscribers |-> "new"]
  /\ bPc = "idle"
  /\ bTargets = {}
  /\ bDead = {}
  /\ PipeParked
  /\ FightParked
  /\ GeminiParked

\* detection_loop, lines 88-89: an invocation has returned one event, and the
\* loop is to call manager.broadcast on it
Publish ==
  /\ pc = "sleep"
  /\ pc' = "broadcast"
  /\ events' = <<SchedM>>
  /\ UNCHANGED <<camVars, cur, emitted, visits, poolVars, detVars, wsVars, bcVars>>
  /\ UNCHANGED restVars

WsNext ==
  \/ Publish
  \/ BroadcastStart
  \/ \E w \in Subscribers : BroadcastSend(w)
  \/ BroadcastEnd
  \/ \E w \in Subscribers : WsAccept(w)
  \/ \E w \in Subscribers : WsAdd(w)
  \/ \E w \in Subscribers : WsDisconnect(w)

SpecWs == WsInit /\ [][WsNext]_vars

\* C40: broadcast never raises because of a failing subscriber.  A send that
\* fails leaves the broadcast going and the detection loop alive; the
\* broadcast ends when every connection registered at its start has been sent
\* to, one at a time, and it removes from the connection set the connections
\* whose send failed and no other; a connection is added by connect only, so
\* that one removed by broadcast or by disconnect is never registered again
\* and is a target of no later broadcast.
C40_BroadcastSurvivesFailingSubscriber ==
  [][/\ (bPc = "sending" /\ bPc' = "idle") =>
          /\ bTargets = {}
          /\ connections' = connections \ bDead
          /\ pc' \in {"sleep", "broadcast"}
     /\ (bPc = "sending" /\ bPc' = "sending") =>
          /\ Cardinality(bTargets \ bTargets') <= 1
          /\ bTargets' \subseteq bTargets
     /\ \A w \in DOMAIN wsPc :
          /\ (w \in bDead' /\ w \notin bDead) =>
               bPc' = "sending" /\ pc' = pc /\ connections' = connections
          /\ (w \in connections' /\ w \notin connections) => wsPc[w] = "accepted"
          /\ (wsPc[w] \in {"serving", "closed"} /\ w \notin connections) =>
               /\ w \notin connections'
               /\ w \in bTargets' => w \in bTargets]_vars

\* a broadcast has ended: the connection whose send failed is registered no
\* more although its handler still serves it, and the other one is
C40_Witness ==
  /\ bPc = "idle"
  /\ \E w, u \in DOMAIN wsPc :
       /\ wsPc[w] = "serving" /\ w \notin connections
       /\ u \in connections

====
